---- MODULE Spec2Model ----
(***************************************************************************)
(* neoglot-lib: the symbol-generic pattern engine (regex/mod.rs), the      *)
(* tokenizer built on it (lexer.rs) and the block-aware forest builder     *)
(* (parser/mod.rs).                                                        *)
(*                                                                         *)
(* Symbols are integers: characters are their Unicode code points and      *)
(* token kinds are the discriminants of the enum, so that the derived      *)
(* ordering used by Set(low, high, _) is the ordering of the integers.     *)
(***************************************************************************)
EXTENDS Integers, Sequences, FiniteSets, TLC

VARIABLES
    \* ---- pattern engine: one Regex and one candidate, and the two calls
    pattern,        \* Regex.pattern : Vec<RegexElement<T>>
    candidate,      \* the &[T] handed to r#match and to split_first
    matchRes,       \* outcome of Regex::match(candidate)
    splitRes,       \* outcome of Regex::split_first(candidate)
    \* ---- tokenizer: one call of Lexer::tokenize_content
    content,        \* the String handed to tokenize_content (code points)
    nodes,          \* Lexer.nodes : Vec<LexerNode<Kind>>
    lineNo,         \* how many items content.lines() has yielded and finished
    line_content,   \* the line being tokenized
    stream,         \* what is left of line_content
    nodeIdx,        \* position of `for node in &self.nodes`
    matched,        \* the flag of the current pass
    location,       \* the running Location
    tokens,         \* Vec<Token<Kind>>
    errors,         \* Vec<LexingError>
    skipped,        \* history: the characters removed by a pass that matched nothing
    lexPc,          \* where tokenize_content stands
    lexResult,      \* the LexingResult returned
    \* ---- forest builder: one call of Parser::parse
    parser,         \* the Parser: nodes, block_start, block_end
    input,          \* the token slice handed to parse
    ptokens,        \* `tokens`: what is left of the slice
    abstract_syntax_forest,
    perrors,        \* `errors`
    knwon_sequence, \* the flag of the current iteration
    pNodeIdx,       \* position of `for node in &self.nodes`
    iterTokens,     \* history: `tokens` when the current iteration began
    parsePc,        \* where parse stands
    parseResult,    \* the ParsingResult returned
    \* ---- expression parser: two ExpressionParser values built by the same calls
    calls,          \* the add_operator / set_high_priority_group calls to make
    callIdx,        \* the next call to make
    exprParserA,    \* the first ExpressionParser
    exprParserB,    \* the second ExpressionParser
    candidates,     \* the slice handed to ExpressionParser::parse
    resultA,        \* what parse returned on the first parser
    resultB,        \* what parse returned on the second parser
    exprPc,         \* "idle", or "run" while this component is the one running
    \* ExpressionParser::find_min_priority, one token per step, with the
    \* numbers held at the width of usize
    scanParser,     \* self
    scanSlice,      \* candidates
    scanIdx,        \* i of `for i in 0..candidates.len()`
    scanMultiplier, \* priority_multiplier
    scanMinPriority, \* min_priority
    scanMinIndx,    \* min_priority_indx
    scanOverflowed, \* not in the source: a product has left the range of usize
    scanPc          \* "idle", "for", "done" or "panic"

regexVars == <<pattern, candidate, matchRes, splitRes>>

lexerVars == <<content, nodes, lineNo, line_content, stream, nodeIdx, matched,
               location, tokens, errors, skipped, lexPc, lexResult>>

parserVars == <<parser, input, ptokens, abstract_syntax_forest, perrors,
                knwon_sequence, pNodeIdx, iterTokens, parsePc, parseResult>>

exprVars == <<calls, callIdx, exprParserA, exprParserB, candidates,
              resultA, resultB, exprPc>>

scanVars == <<scanParser, scanSlice, scanIdx, scanMultiplier, scanMinPriority,
              scanMinIndx, scanOverflowed, scanPc>>

vars == <<regexVars, lexerVars, parserVars, exprVars, scanVars>>

-----------------------------------------------------------------------------
(* Bounds of the explored inputs *)

MaxLen == 4     \* longest candidate sequence
MaxPat == 2     \* longest pattern (number of top-level elements)
MaxN == 2       \* largest n of Exactly(n) in the quantifier laws
MaxContent == 4 \* longest text handed to the tokenizer (characters)
MaxTokens == 4  \* longest token slice handed to the forest builder
MaxExpr == 4    \* longest enumerated slice handed to the expression parser
MaxDepth == 10   \* deepest nesting of the slices scanned at the width of usize

-----------------------------------------------------------------------------
(* regex/mod.rs : Quantifier, RegexElement *)

Exactly(n) == [q |-> "Exactly", n |-> n]
OneOrMany == [q |-> "OneOrMany", n |-> 0]
ZeroOrMany == [q |-> "ZeroOrMany", n |-> 0]
ZeroOrOne == [q |-> "ZeroOrOne", n |-> 0]

\* every element is a record of the same shape; the fields an arm does not
\* have are left at a fixed filler value
Item(value, qt) == [t |-> "Item", lo |-> value, hi |-> value, qt |-> qt, es |-> <<>>]
Set(low, high, qt) == [t |-> "Set", lo |-> low, hi |-> high, qt |-> qt, es |-> <<>>]
Group(elements, qt) == [t |-> "Group", lo |-> 0, hi |-> 0, qt |-> qt, es |-> elements]
AnyOf(elements) == [t |-> "AnyOf", lo |-> 0, hi |-> 0, qt |-> ZeroOrMany, es |-> elements]
NoneOf(elements, qt) == [t |-> "NoneOf", lo |-> 0, hi |-> 0, qt |-> qt, es |-> elements]

\* Option<&[T]> and candidate.get(ind..)
Some(s) == [some |-> TRUE, s |-> s]
None == [some |-> FALSE, s |-> <<>>]

slice_from(s, ind) ==
    IF ind <= Len(s) THEN Some(SubSeq(s, ind + 1, Len(s))) ELSE None

match_quantifier_exactly_at_least(num, quantifier) ==
    CASE quantifier.q = "Exactly" -> num >= quantifier.n
      [] quantifier.q = "OneOrMany" -> num >= 1
      [] quantifier.q = "ZeroOrMany" -> TRUE
      [] quantifier.q = "ZeroOrOne" -> num = 0 \/ num = 1

match_quantifier(num, quantifier) ==
    CASE quantifier.q = "Exactly" -> quantifier.n = num
      [] quantifier.q = "OneOrMany" -> num >= 1
      [] quantifier.q = "ZeroOrMany" -> TRUE
      [] quantifier.q = "ZeroOrOne" -> num = 0 \/ num = 1

\* what the `match qt { ... }` inside the counting loops decides once
\* `occurences` has been incremented: TRUE is `break`, FALSE is `continue`
quantifier_break_many_as_one(qt, occurences) ==
    CASE qt.q = "Exactly" -> qt.n = occurences
      [] qt.q = "OneOrMany" -> FALSE
      [] qt.q = "ZeroOrMany" -> TRUE
      [] qt.q = "ZeroOrOne" -> TRUE

quantifier_break(qt, occurences) ==
    CASE qt.q = "Exactly" -> qt.n = occurences
      [] qt.q = "OneOrMany" -> FALSE
      [] qt.q = "ZeroOrMany" -> FALSE
      [] qt.q = "ZeroOrOne" -> TRUE

\* Item arm: `for c in candidate` from the i-th symbol on
RECURSIVE item_loop(_, _, _, _, _)
item_loop(cand, value, qt, i, occurences) ==
    IF i > Len(cand) THEN occurences
    ELSE IF value = cand[i]
         THEN IF quantifier_break(qt, occurences + 1)
              THEN occurences + 1
              ELSE item_loop(cand, value, qt, i + 1, occurences + 1)
         ELSE occurences

\* Set arm
RECURSIVE set_loop(_, _, _, _, _, _)
set_loop(cand, low, high, qt, i, occurences) ==
    IF i > Len(cand) THEN occurences
    ELSE IF low <= cand[i] /\ cand[i] <= high
         THEN IF quantifier_break(qt, occurences + 1)
              THEN occurences + 1
              ELSE set_loop(cand, low, high, qt, i + 1, occurences + 1)
         ELSE occurences

Result(valid, passed) == [valid |-> valid, passed |-> passed, panic |-> FALSE]
Panic == [valid |-> FALSE, passed |-> 0, panic |-> TRUE]

\* `(match_quantifier(occurences, qt), occurences)`
Counted(occurences, qt) == Result(match_quantifier(occurences, qt), occurences)

RECURSIVE match_element(_, _)
RECURSIVE any_of_loop(_, _, _, _)
RECURSIVE none_of_valid(_, _, _, _)
RECURSIVE none_of_loop(_, _, _, _, _)
RECURSIVE group_pass(_, _, _, _)
RECURSIVE group_loop(_, _, _, _, _)

\* AnyOf arm, the body of the loop once element i has returned r:
\* `(valid, passed) = ...; if valid { break; }`
any_of_next(candidate_, elements, i, r) ==
    IF r.panic \/ r.valid THEN r
    ELSE any_of_loop(candidate_, elements, i + 1, r)

\* AnyOf arm: `for element in elements`, `last` is the current (valid, passed)
any_of_loop(candidate_, elements, i, last) ==
    IF i > Len(elements) THEN last
    ELSE any_of_next(candidate_, elements, i, match_element(candidate_, elements[i]))

\* NoneOf arm, inner loop once element i has returned r:
\* `valid = !matched; if !valid { break; }`
none_of_valid_next(c, elements, i, r) ==
    IF r.panic THEN "panic"
    ELSE IF r.valid THEN "no"
    ELSE none_of_valid(c, elements, i + 1, TRUE)

\* NoneOf arm, inner `for element in elements` for one symbol c; `valid` starts
\* FALSE.  The result is "ok" (valid), "no" (not valid) or "panic".
none_of_valid(c, elements, i, valid) ==
    IF i > Len(elements) THEN (IF valid THEN "ok" ELSE "no")
    ELSE none_of_valid_next(c, elements, i,
                            match_element(Some(<<c>>), elements[i]))

\* NoneOf arm, outer loop once the inner loop has decided v for symbol i
none_of_next(cand, elements, qt, i, occurences, v) ==
    IF v = "panic" THEN Panic
    ELSE IF v = "ok"
         THEN IF quantifier_break(qt, occurences + 1)
              THEN Counted(occurences + 1, qt)
              ELSE none_of_loop(cand, elements, qt, i + 1, occurences + 1)
         ELSE Counted(occurences, qt)

\* NoneOf arm, outer `for c in candidate`
none_of_loop(cand, elements, qt, i, occurences) ==
    IF i > Len(cand) THEN Counted(occurences, qt)
    ELSE none_of_next(cand, elements, qt, i, occurences,
                      none_of_valid(cand[i], elements, 1, FALSE))

\* Group arm, one pass once element i has returned r:
\* `if valid { ind += passed; } else { break; }`
group_pass_next(cand, elements, i, ind, r) ==
    IF r.panic THEN [valid |-> FALSE, ind |-> ind, panic |-> TRUE]
    ELSE IF r.valid THEN group_pass(cand, elements, i + 1, ind + r.passed)
    ELSE [valid |-> FALSE, ind |-> ind, panic |-> FALSE]

\* Group arm, `for element in elements` of one pass, from element i at offset ind
group_pass(cand, elements, i, ind) ==
    IF i > Len(elements) THEN [valid |-> TRUE, ind |-> ind, panic |-> FALSE]
    ELSE group_pass_next(cand, elements, i, ind,
                         match_element(slice_from(cand, ind), elements[i]))

\* a Group that never takes a second turn of its `loop`
group_repeat_never(cand, elements, ind, occurences, full, r) ==
    [ind |-> ind, occurences |-> occurences, full |-> full, panic |-> r.panic]

\* Group arm, end of one turn of the `loop`: r is what the fresh attempt at
\* the first element returned; `if !should_repeat { break; } else if passed == 0 { break; }`
group_repeat(cand, elements, ind, occurences, full, r) ==
    IF r.panic
    THEN [ind |-> ind, occurences |-> occurences, full |-> full, panic |-> TRUE]
    ELSE IF (~r.valid) \/ r.passed = 0
    THEN [ind |-> ind, occurences |-> occurences, full |-> full, panic |-> FALSE]
    ELSE group_loop(cand, elements, ind, occurences, full)

\* Group arm, one turn of the `loop` once its pass has returned p:
\* `if valid { occurences += 1; }`, then the fresh attempt at elements[0]
group_after_pass(cand, elements, ind, occurences, full, p) ==
    IF p.panic
    THEN [ind |-> p.ind, occurences |-> occurences, full |-> full, panic |-> TRUE]
    ELSE group_repeat(cand, elements, p.ind,
                      IF p.valid THEN occurences + 1 ELSE occurences,
                      IF p.valid THEN full + (p.ind - ind) ELSE full,
                      match_element(slice_from(cand, p.ind), elements[1]))

\* Group arm, the `loop { ... }`.  `full` is not in the source: it adds up the
\* lengths of the passes in which every element accepted.  An empty element
\* list panics at `elements.get(0).unwrap()`.
group_loop(cand, elements, ind, occurences, full) ==
    IF elements = <<>>
    THEN [ind |-> ind, occurences |-> occurences, full |-> full, panic |-> TRUE]
    ELSE group_after_pass(cand, elements, ind, occurences, full,
                          group_pass(cand, elements, 1, ind))

\* Group arm, `(match_quantifier(occurences, qt), ind)`
group_result(g, qt) ==
    IF g.panic THEN Panic ELSE Result(match_quantifier(g.occurences, qt), g.ind)

match_element(candidate_, e) ==
    CASE e.t = "Item" ->
           Counted(IF candidate_.some
                   THEN item_loop(candidate_.s, e.lo, e.qt, 1, 0) ELSE 0, e.qt)
      [] e.t = "Set" ->
           Counted(IF candidate_.some
                   THEN set_loop(candidate_.s, e.lo, e.hi, e.qt, 1, 0) ELSE 0, e.qt)
      [] e.t = "AnyOf" -> any_of_loop(candidate_, e.es, 1, Result(FALSE, 0))
      [] e.t = "NoneOf" ->
           IF candidate_.some
           THEN none_of_loop(candidate_.s, e.es, e.qt, 1, 0)
           ELSE Counted(0, e.qt)
      [] e.t = "Group" ->
           IF candidate_.some
           THEN group_result(group_loop(candidate_.s, e.es, 0, 0, 0), e.qt)
           ELSE Counted(0, e.qt)

-----------------------------------------------------------------------------
(* regex/mod.rs : Regex::match, Regex::split_first *)

RECURSIVE pattern_loop(_, _, _, _, _)

\* the loop body once element i has returned r:
\* `if valid { ind += passed; } else { break; }`
pattern_next(pat, cand, i, ind, r) ==
    IF r.panic THEN [valid |-> FALSE, ind |-> ind, panic |-> TRUE]
    ELSE IF r.valid THEN pattern_loop(pat, cand, i + 1, TRUE, ind + r.passed)
    ELSE [valid |-> FALSE, ind |-> ind, panic |-> FALSE]

\* the `for element in &self.pattern` loop, the same in both calls: returns
\* the (valid, ind) the loop ends with
pattern_loop(pat, cand, i, valid, ind) ==
    IF i > Len(pat) THEN [valid |-> valid, ind |-> ind, panic |-> FALSE]
    ELSE pattern_next(pat, cand, i, ind,
                      match_element(slice_from(cand, ind), pat[i]))

\* `valid && ind >= candidate.len()`
match_value(l, cand) ==
    [done |-> TRUE, panic |-> l.panic,
     val |-> (~l.panic) /\ l.valid /\ l.ind >= Len(cand)]

match_value_ignoring_rest(l, cand) ==
    [done |-> TRUE, panic |-> l.panic, val |-> (~l.panic) /\ l.valid]

r_match_ignoring_rest(pat, cand) ==
    match_value_ignoring_rest(pattern_loop(pat, cand, 1, FALSE, 0), cand)

r_match(pat, cand) == match_value(pattern_loop(pat, cand, 1, FALSE, 0), cand)

\* `candidate.split_at(ind)`, which panics past the end
split_at(l, cand) ==
    IF l.panic \/ l.ind > Len(cand)
    THEN [done |-> TRUE, panic |-> TRUE, matched |-> <<>>, others |-> <<>>]
    ELSE [done |-> TRUE, panic |-> FALSE,
          matched |-> SubSeq(cand, 1, l.ind),
          others |-> SubSeq(cand, l.ind + 1, Len(cand))]

split_first(pat, cand) == split_at(pattern_loop(pat, cand, 1, FALSE, 0), cand)

NotCalledMatch == [done |-> FALSE, panic |-> FALSE, val |-> FALSE]
NotCalledSplit == [done |-> FALSE, panic |-> FALSE, matched |-> <<>>, others |-> <<>>]

-----------------------------------------------------------------------------
(* Inputs of the pattern engine *)

Symbols == {1, 2}

SeqsUpTo(S, n) == UNION {[1..k -> S] : k \in 0..n}

Candidates == SeqsUpTo(Symbols, MaxLen)

AB == <<Item(1, OneOrMany), Item(2, Exactly(1))>>

Elements ==
    {Item(1, Exactly(1)), Item(1, OneOrMany), Item(1, ZeroOrMany), Item(1, ZeroOrOne),
     Item(2, Exactly(1)), Set(1, 2, OneOrMany),
     Group(AB, Exactly(1)), Group(AB, OneOrMany), Group(AB, ZeroOrOne),
     Group(<<Item(1, Exactly(1)), Item(2, Exactly(1))>>, OneOrMany),
     Group(<<>>, ZeroOrMany),
     AnyOf(<<Item(1, Exactly(1)), Item(2, OneOrMany)>>),
     NoneOf(<<Item(1, Exactly(1))>>, OneOrMany),
     NoneOf(<<>>, ZeroOrMany)}

Quantifiers == {Exactly(n) : n \in 0..MaxN} \cup {OneOrMany, ZeroOrMany, ZeroOrOne}

\* the one-element patterns of the quantifier laws
QuantifiedElements ==
    {Item(v, q) : v \in Symbols, q \in Quantifiers}
    \cup {Set(lh[1], lh[2], q) : lh \in {<<1, 1>>, <<1, 2>>, <<2, 2>>}, q \in Quantifiers}

Patterns == SeqsUpTo(Elements, MaxPat) \cup {<<e>> : e \in QuantifiedElements}

-----------------------------------------------------------------------------
(* The pattern engine as a state machine: the two calls on one input *)

InitRegex ==
    /\ pattern \in Patterns
    /\ candidate \in Candidates
    /\ matchRes = NotCalledMatch
    /\ splitRes = NotCalledSplit

\* no pattern-engine call of its own (the other components call the engine
\* through split_first)
IdleRegex ==
    /\ pattern = <<>>
    /\ candidate = <<>>
    /\ matchRes = NotCalledMatch
    /\ splitRes = NotCalledSplit

CallMatch ==
    /\ ~matchRes.done
    /\ matchRes' = r_match(pattern, candidate)
    /\ UNCHANGED <<pattern, candidate, splitRes>>
    /\ UNCHANGED <<lexerVars, parserVars, exprVars, scanVars>>

CallSplitFirst ==
    /\ ~splitRes.done
    /\ splitRes' = split_first(pattern, candidate)
    /\ UNCHANGED <<pattern, candidate, matchRes>>
    /\ UNCHANGED <<lexerVars, parserVars, exprVars, scanVars>>

NextRegex == CallMatch \/ CallSplitFirst


-----------------------------------------------------------------------------
(* lexer.rs : Location, Token, LexerNode, Lexer::tokenize_content *)

\* String::len() is the length in bytes of the UTF-8 encoding
len_utf8(c) ==
    IF c < 128 THEN 1 ELSE IF c < 2048 THEN 2 ELSE IF c < 65536 THEN 3 ELSE 4

RECURSIVE string_len(_)
string_len(literal) ==
    IF literal = <<>> THEN 0 ELSE len_utf8(Head(literal)) + string_len(Tail(literal))

\* char::is_whitespace (the Unicode White_Space property)
is_whitespace(c) ==
    c \in (9..13) \cup {32, 133, 160, 5760, 8232, 8233, 8239, 8287, 12288}
          \cup (8192..8202)

\* str::lines(): split at "\n", a "\r" right before the "\n" is dropped and a
\* final empty piece is not yielded
RECURSIVE lines_from(_, _, _)
lines_from(text, i, cur) ==
    IF i > Len(text) THEN (IF cur = <<>> THEN <<>> ELSE <<cur>>)
    ELSE IF text[i] = 10
         THEN LET line == IF cur # <<>> /\ cur[Len(cur)] = 13
                          THEN SubSeq(cur, 1, Len(cur) - 1) ELSE cur
              IN  <<line>> \o lines_from(text, i + 1, <<>>)
         ELSE lines_from(text, i + 1, Append(cur, text[i]))

lines(text) == lines_from(text, 1, <<>>)

Location(line, column) == [file |-> "virtual_file", line |-> line, column |-> column]

LexerNode(regex, kind) == [regex |-> regex, kind |-> kind]

\* a tokenize whose remainder starts one character too far
tokenize_split_dropping_one(sp, kind, loc) ==
    [panic |-> sp.panic,
     others |-> IF sp.others = <<>> THEN <<>> ELSE Tail(sp.others),
     some |-> (~sp.panic) /\ sp.matched # <<>>,
     token |-> [location |-> loc, kind |-> kind, literal |-> sp.matched]]

\* LexerNode::tokenize once split_first has returned sp
tokenize_split(sp, kind, loc) ==
    [panic |-> sp.panic,
     others |-> sp.others,
     some |-> (~sp.panic) /\ sp.matched # <<>>,
     token |-> [location |-> loc, kind |-> kind, literal |-> sp.matched]]

\* LexerNode::tokenize: (others, Option<Token>)
tokenize(node, c, loc) == tokenize_split(split_first(node.regex, c), node.kind, loc)

NoResult == [kind |-> "none", tokens |-> <<>>, errors |-> <<>>]

\* the characters of the explored texts: "\n", " ", "+", "a", "e" with acute
Chars == {10, 32, 43, 97, 233}

Contents == SeqsUpTo(Chars, MaxContent)

\* the explored Lexers (kinds are numbered in the order of the enum)
Lexers ==
    {<<>>,
     <<LexerNode(<<Item(233, OneOrMany)>>, 3)>>,
     <<LexerNode(<<Item(97, Exactly(1))>>, 1), LexerNode(<<Item(97, Exactly(1))>>, 2)>>,
     <<LexerNode(<<Set(97, 233, OneOrMany)>>, 1), LexerNode(<<Item(43, Exactly(1))>>, 2)>>,
     <<LexerNode(<<Item(43, Exactly(1))>>, 2), LexerNode(<<Item(97, OneOrMany)>>, 1),
       LexerNode(<<Item(233, ZeroOrOne), Item(43, ZeroOrOne)>>, 3)>>}

InitLexer ==
    /\ content \in Contents
    /\ nodes \in Lexers
    /\ lineNo = 0
    /\ line_content = <<>>
    /\ stream = <<>>
    /\ nodeIdx = 0
    /\ matched = FALSE
    /\ location = Location(0, 0)
    /\ tokens = <<>>
    /\ errors = <<>>
    /\ skipped = <<>>
    /\ lexPc = "lines"
    /\ lexResult = NoResult

IdleLexer ==
    /\ content = <<>>
    /\ nodes = <<>>
    /\ lineNo = 0
    /\ line_content = <<>>
    /\ stream = <<>>
    /\ nodeIdx = 0
    /\ matched = FALSE
    /\ location = Location(0, 0)
    /\ tokens = <<>>
    /\ errors = <<>>
    /\ skipped = <<>>
    /\ lexPc = "idle"
    /\ lexResult = NoResult

\* `for line_content in content.lines()` yields the next line
NextLine ==
    /\ lexPc = "lines"
    /\ lineNo < Len(lines(content))
    /\ line_content' = lines(content)[lineNo + 1]
    /\ stream' = lines(content)[lineNo + 1]
    /\ lexPc' = "while"
    /\ UNCHANGED <<content, nodes, lineNo, nodeIdx, matched, location, tokens,
                   errors, skipped, lexResult>>
    /\ UNCHANGED <<regexVars, parserVars, exprVars, scanVars>>

\* `while !stream.is_empty()` entered: `let mut matched = false` and the
\* node loop starts at the first node
BeginPass ==
    /\ lexPc = "while"
    /\ stream # <<>>
    /\ matched' = FALSE
    /\ nodeIdx' = 1
    /\ lexPc' = "nodes"
    /\ UNCHANGED <<content, nodes, lineNo, line_content, stream, location, tokens,
                   errors, skipped, lexResult>>
    /\ UNCHANGED <<regexVars, parserVars, exprVars, scanVars>>

\* where the node loop goes after node i
next_node_restart(i, emitted) == IF emitted THEN 1 ELSE i + 1

next_node(i, emitted) == i + 1

\* one iteration of `for node in &self.nodes`, r is what node.tokenize returned
TryNodeWith(r) ==
    IF r.panic
    THEN /\ lexPc' = "panic"
         /\ UNCHANGED <<nodeIdx, matched, stream, location, tokens>>
    ELSE /\ lexPc' = "nodes"
         /\ nodeIdx' = next_node(nodeIdx, r.some)
         /\ IF r.some
            THEN /\ location' = Location(location.line,
                                  location.column + string_len(r.token.literal))
                 /\ tokens' = Append(tokens, r.token)
                 /\ stream' = r.others
                 /\ matched' = TRUE
            ELSE UNCHANGED <<location, tokens, stream, matched>>

TryNode ==
    /\ lexPc = "nodes"
    /\ nodeIdx <= Len(nodes)
    /\ TryNodeWith(tokenize(nodes[nodeIdx], stream, location))
    /\ UNCHANGED <<content, nodes, lineNo, line_content, errors, skipped, lexResult>>
    /\ UNCHANGED <<regexVars, parserVars, exprVars, scanVars>>

\* the node loop is over: `if !matched { ... }`
EndPass ==
    /\ lexPc = "nodes"
    /\ nodeIdx > Len(nodes)
    /\ IF ~matched
       THEN /\ errors' = IF ~is_whitespace(stream[1])
                         THEN Append(errors, [location |-> location])
                         ELSE errors
            /\ skipped' = Append(skipped,
                                 [line |-> lineNo,
                                  offset |-> Len(line_content) - Len(stream),
                                  char |-> stream[1]])
            /\ stream' = Tail(stream)
            /\ location' = Location(location.line, location.column + 1)
       ELSE UNCHANGED <<errors, skipped, stream, location>>
    /\ lexPc' = "while"
    /\ UNCHANGED <<content, nodes, lineNo, line_content, nodeIdx, matched, tokens,
                   lexResult>>
    /\ UNCHANGED <<regexVars, parserVars, exprVars, scanVars>>

\* the while loop ends: the location moves to the start of the next line
EndLine ==
    /\ lexPc = "while"
    /\ stream = <<>>
    /\ location' = Location(location.line + 1, 0)
    /\ lineNo' = lineNo + 1
    /\ lexPc' = "lines"
    /\ UNCHANGED <<content, nodes, line_content, stream, nodeIdx, matched, tokens,
                   errors, skipped, lexResult>>
    /\ UNCHANGED <<regexVars, parserVars, exprVars, scanVars>>

\* the lines are exhausted: the LexingResult
Finish ==
    /\ lexPc = "lines"
    /\ lineNo = Len(lines(content))
    /\ lexResult' = IF errors # <<>>
                    THEN [kind |-> "Err", tokens |-> <<>>, errors |-> errors]
                    ELSE [kind |-> "Ok", tokens |-> tokens, errors |-> <<>>]
    /\ lexPc' = "done"
    /\ UNCHANGED <<content, nodes, lineNo, line_content, stream, nodeIdx, matched,
                   location, tokens, errors, skipped>>
    /\ UNCHANGED <<regexVars, parserVars, exprVars, scanVars>>

NextLexer == NextLine \/ BeginPass \/ TryNode \/ EndPass \/ EndLine \/ Finish

-----------------------------------------------------------------------------
(* parser/mod.rs : AST, ParsingError, ParserNode, Parser *)

\* the token kinds of the doc example: enum TokenType {A, B, BlockS, BlockE}
KindA == 0
KindB == 1
BlockS == 2
BlockE == 3

AST(kind, children) == [kind |-> kind, children |-> children]

\* ParsingError; an Option<T> is <<>> (None) or <<t>> (Some(t))
InvalidGroups(loc) ==
    [e |-> "InvalidGroups", expected |-> <<>>, got |-> <<>>, location |-> loc]
UnparsedSequence(loc) ==
    [e |-> "UnparsedSequence", expected |-> <<>>, got |-> <<>>, location |-> loc]
UnclosedBlock(loc) ==
    [e |-> "UnclosedBlock", expected |-> <<>>, got |-> <<>>, location |-> loc]
UnexpectedToken(expected, got, loc) ==
    [e |-> "UnexpectedToken", expected |-> expected, got |-> got, location |-> loc]

\* ParsingResult, and a panic of the call
ParsingOk(forest) == [kind |-> "Ok", forest |-> forest, errors |-> <<>>]
ParsingErr(errs) == [kind |-> "Err", forest |-> <<>>, errors |-> errs]
ParsingPanic == [kind |-> "panic", forest |-> <<>>, errors |-> <<>>]
NoParsingResult == [kind |-> "none", forest |-> <<>>, errors |-> <<>>]

\* ParserNode { regex, parser }: the closure either returns one childless
\* tree of kind `out`, or one error located at the first token it was given
ParserNode(regex, ok, out) == [regex |-> regex, ok |-> ok, out |-> out]

\* (self.parser)(&tokens[0..matched.len()], p)
produce(node, toks) ==
    IF node.ok THEN ParsingOk(<<AST(node.out, <<>>)>>)
    ELSE ParsingErr(<<InvalidGroups(toks[1].location)>>)

\* tokens.iter().map(|e| e.kind).collect()
token_types(toks) == [i \in 1..Len(toks) |-> toks[i].kind]

\* the local state of one call of Parser::parse
Frame(toks, forest, errs, known, status) ==
    [tokens |-> toks, forest |-> forest, errors |-> errs, known |-> known,
     status |-> status]

\* Parser::slice_block, the while loop (i counts from 0 as in the source)
RECURSIVE slice_scan(_, _, _, _, _)
slice_scan(p, toks, i, open_blocks, last_block_end) ==
    IF i < Len(toks) /\ open_blocks # 0
    THEN IF toks[i + 1].kind = p.block_start
         THEN slice_scan(p, toks, i + 1, open_blocks + 1, last_block_end)
         ELSE IF toks[i + 1].kind = p.block_end
         THEN slice_scan(p, toks, i + 1, open_blocks - 1,
                         IF open_blocks - 1 = 0 THEN i ELSE last_block_end)
         ELSE slice_scan(p, toks, i + 1, open_blocks, last_block_end)
    ELSE [open_blocks |-> open_blocks, last_block_end |-> last_block_end]

\* Parser::slice_block, what it returns after the loop
slice_result(toks, sc) ==
    IF sc.open_blocks = 0
    THEN [ok |-> TRUE, tok |-> SubSeq(toks, 1, sc.last_block_end + 1),
          err |-> UnclosedBlock(toks[1].location)]
    ELSE [ok |-> FALSE, tok |-> <<>>, err |-> UnclosedBlock(toks[1].location)]

slice_block(p, toks) ==
    IF toks[1].kind # p.block_start
    THEN [ok |-> FALSE, tok |-> <<>>,
          err |-> UnexpectedToken(<<p.block_start>>, <<toks[1].kind>>, toks[1].location)]
    ELSE slice_result(toks, slice_scan(p, toks, 1, 1, 0))

\* ParserNode::parse and the `if let Some(result)` body of Parser::parse, once
\* split_first has returned sp for the kinds of the remaining tokens:
\* `*tokens = &tokens[matched.len()..]`, then on Err `tokens = &tokens[1..]`
node_parsed(f, node, sp) ==
    IF sp.panic THEN [f EXCEPT !.status = "panic"]
    ELSE IF sp.matched = <<>> THEN f
    ELSE IF node.ok
    THEN [f EXCEPT !.tokens = SubSeq(f.tokens, Len(sp.matched) + 1, Len(f.tokens)),
                   !.known = TRUE,
                   !.forest = f.forest \o
                       produce(node, SubSeq(f.tokens, 1, Len(sp.matched))).forest]
    ELSE IF Len(sp.matched) = Len(f.tokens)     \* &tokens[1..] of an empty slice
    THEN [f EXCEPT !.tokens = <<>>,
                   !.known = TRUE,
                   !.errors = f.errors \o
                       produce(node, SubSeq(f.tokens, 1, Len(sp.matched))).errors,
                   !.status = "panic"]
    ELSE [f EXCEPT !.tokens = SubSeq(f.tokens, Len(sp.matched) + 2, Len(f.tokens)),
                   !.known = TRUE,
                   !.errors = f.errors \o
                       produce(node, SubSeq(f.tokens, 1, Len(sp.matched))).errors]

\* one turn of `for node in &self.nodes`
rule_step(f, node) ==
    node_parsed(f, node, split_first(node.regex, token_types(f.tokens)))

RECURSIVE rules_loop(_, _, _)
rules_loop(p, f, i) ==
    IF f.status # "run" \/ i > Len(p.nodes) THEN f
    ELSE rules_loop(p, rule_step(f, p.nodes[i]), i + 1)

\* `if !knwon_sequence && !tokens.is_empty()`: UnparsedSequence and return
iteration_end(f) ==
    IF f.status = "run" /\ (~f.known) /\ f.tokens # <<>>
    THEN [f EXCEPT !.errors = Append(f.errors, UnparsedSequence(f.tokens[1].location)),
                   !.status = "fatal"]
    ELSE f

RECURSIVE parse(_, _)
RECURSIVE parse_loop(_, _)

block_parsed_without_close(p, f, tok, r) ==
    IF r.kind = "panic" THEN [f EXCEPT !.status = "panic"]
    ELSE IF r.kind = "Err"
    THEN [f EXCEPT !.errors = f.errors \o r.errors,
                   !.tokens = SubSeq(f.tokens, Len(tok) + 1, Len(f.tokens))]
    ELSE [f EXCEPT !.forest = Append(f.forest, AST(p.block_start, r.forest)),
                   !.tokens = SubSeq(f.tokens, Len(tok) + 1, Len(f.tokens))]

\* the Ok(tok) arm once the recursive parse of the interior has returned r
block_parsed(p, f, tok, r) ==
    IF r.kind = "panic" THEN [f EXCEPT !.status = "panic"]
    ELSE IF r.kind = "Err"
    THEN [f EXCEPT !.errors = f.errors \o r.errors,
                   !.tokens = SubSeq(f.tokens, Len(tok) + 1, Len(f.tokens))]
    ELSE [f EXCEPT !.forest = Append(f.forest,
                       AST(p.block_start, Append(r.forest, AST(p.block_end, <<>>)))),
                   !.tokens = SubSeq(f.tokens, Len(tok) + 1, Len(f.tokens))]

\* `match self.slice_block(tokens)` once slice_block has returned sl
block_sliced(p, f, sl) ==
    IF ~sl.ok
    THEN [f EXCEPT !.errors = Append(f.errors, sl.err), !.tokens = Tail(f.tokens)]
    ELSE block_parsed(p, f, sl.tok, parse(p, SubSeq(sl.tok, 2, Len(sl.tok) - 1)))

\* block handling that steps over a stray closing delimiter
block_handling_skipping_close(p, f) ==
    IF f.tokens[1].kind = p.block_start
    THEN [block_sliced(p, f, slice_block(p, f.tokens)) EXCEPT !.known = FALSE]
    ELSE IF f.tokens[1].kind = p.block_end
    THEN [f EXCEPT !.errors = Append(f.errors,
                       UnexpectedToken(<<>>, <<p.block_end>>, f.tokens[1].location)),
                   !.tokens = Tail(f.tokens),
                   !.known = FALSE]
    ELSE [f EXCEPT !.known = FALSE]

\* the head of one iteration: block handling, then `knwon_sequence = false`
block_handling(p, f) ==
    IF f.tokens[1].kind = p.block_start
    THEN [block_sliced(p, f, slice_block(p, f.tokens)) EXCEPT !.known = FALSE]
    ELSE IF f.tokens[1].kind = p.block_end
    THEN [f EXCEPT !.errors = Append(f.errors,
                       UnexpectedToken(<<>>, <<p.block_end>>, f.tokens[1].location)),
                   !.known = FALSE]
    ELSE [f EXCEPT !.known = FALSE]

\* what parse returns when the loop is left
parse_return(f) ==
    IF f.status = "panic" THEN ParsingPanic
    ELSE IF f.errors # <<>> THEN ParsingErr(f.errors)
    ELSE ParsingOk(f.forest)

\* `while !tokens.is_empty() { ... }`
parse_loop(p, f) ==
    IF f.status # "run" \/ f.tokens = <<>> THEN parse_return(f)
    ELSE parse_loop(p, iteration_end(rules_loop(p, block_handling(p, f), 1)))

parse(p, toks) == parse_loop(p, Frame(toks, <<>>, <<>>, FALSE, "run"))

-----------------------------------------------------------------------------
(* Inputs of the forest builder *)

Token(loc, kind, literal) == [location |-> loc, kind |-> kind, literal |-> literal]

\* the i-th token of a slice sits at line 0, column i - 1
TokenSlice(kinds) ==
    [i \in 1..Len(kinds) |-> Token(Location(0, i - 1), kinds[i], <<kinds[i]>>)]

TokenKinds == {KindA, KindB, BlockS, BlockE}

\* the tokens of the test block_parsing: A B { A B { B } A }
NestedBlocks ==
    <<KindA, KindB, BlockS, KindA, KindB, BlockS, KindB, BlockE, KindA, BlockE>>

TokenSlices ==
    {TokenSlice(ks) : ks \in SeqsUpTo(TokenKinds, MaxTokens) \cup {NestedBlocks}}

RuleA == ParserNode(<<Item(KindA, Exactly(1))>>, TRUE, KindA)
RuleB == ParserNode(<<Item(KindB, Exactly(1))>>, TRUE, KindB)
RuleAAErr == ParserNode(<<Item(KindA, Exactly(2))>>, FALSE, KindA)
RuleBsErr == ParserNode(<<Item(KindB, OneOrMany)>>, FALSE, KindB)
\* a second rule for A, whose tree is told apart by its kind
RuleAasB == ParserNode(<<Item(KindA, Exactly(1))>>, TRUE, KindB)

NodeTables ==
    {<<>>, <<RuleA>>, <<RuleA, RuleB>>, <<RuleB, RuleA>>,
     <<RuleAAErr, RuleA, RuleB>>, <<RuleBsErr, RuleA>>,
     <<RuleA, RuleBsErr>>, <<RuleA, RuleAasB>>}

Parser(nodes_, block_start, block_end) ==
    [nodes |-> nodes_, block_start |-> block_start, block_end |-> block_end]

-----------------------------------------------------------------------------
(* Parser::parse as a state machine (the outermost call) *)

InitParser ==
    /\ parser \in {Parser(t, BlockS, BlockE) : t \in NodeTables}
    /\ input \in TokenSlices
    /\ ptokens = input
    /\ abstract_syntax_forest = <<>>
    /\ perrors = <<>>
    /\ knwon_sequence = FALSE
    /\ pNodeIdx = 0
    /\ iterTokens = input
    /\ parsePc = "while"
    /\ parseResult = NoParsingResult

IdleParser ==
    /\ parser = Parser(<<>>, BlockS, BlockE)
    /\ input = <<>>
    /\ ptokens = <<>>
    /\ abstract_syntax_forest = <<>>
    /\ perrors = <<>>
    /\ knwon_sequence = FALSE
    /\ pNodeIdx = 0
    /\ iterTokens = <<>>
    /\ parsePc = "idle"
    /\ parseResult = NoParsingResult

CurrentFrame == Frame(ptokens, abstract_syntax_forest, perrors, knwon_sequence, "run")

\* the variables of the call after a step that left the frame f
StoreFrame(f, pc) ==
    /\ ptokens' = f.tokens
    /\ abstract_syntax_forest' = f.forest
    /\ perrors' = f.errors
    /\ knwon_sequence' = f.known
    /\ parsePc' = IF f.status = "run" THEN pc ELSE f.status
    /\ parseResult' = IF f.status = "panic" THEN ParsingPanic
                      ELSE IF f.status = "fatal" THEN ParsingErr(f.errors)
                      ELSE parseResult

\* an iteration begins: block handling (with the recursive parse of a block)
BlockStep ==
    /\ parsePc = "while"
    /\ ptokens # <<>>
    /\ StoreFrame(block_handling(parser, CurrentFrame), "rules")
    /\ iterTokens' = ptokens
    /\ pNodeIdx' = 1
    /\ UNCHANGED <<parser, input>>
    /\ UNCHANGED <<regexVars, lexerVars, exprVars, scanVars>>

\* one turn of `for node in &self.nodes`
RuleStep ==
    /\ parsePc = "rules"
    /\ pNodeIdx <= Len(parser.nodes)
    /\ StoreFrame(rule_step(CurrentFrame, parser.nodes[pNodeIdx]), "rules")
    /\ pNodeIdx' = pNodeIdx + 1
    /\ UNCHANGED <<parser, input, iterTokens>>
    /\ UNCHANGED <<regexVars, lexerVars, exprVars, scanVars>>

\* the end of an iteration without the `return` of the unparsed case
IterationEndWithoutReturn ==
    /\ parsePc = "rules"
    /\ pNodeIdx > Len(parser.nodes)
    /\ parsePc' = "while"
    /\ UNCHANGED <<parser, input, ptokens, abstract_syntax_forest, perrors,
                   knwon_sequence, parseResult, pNodeIdx, iterTokens>>
    /\ UNCHANGED <<regexVars, lexerVars, exprVars, scanVars>>

\* the rules are exhausted: UnparsedSequence and return, or the next iteration
IterationEnd ==
    /\ parsePc = "rules"
    /\ pNodeIdx > Len(parser.nodes)
    /\ StoreFrame(iteration_end(CurrentFrame), "while")
    /\ UNCHANGED <<parser, input, pNodeIdx, iterTokens>>
    /\ UNCHANGED <<regexVars, lexerVars, exprVars, scanVars>>

\* the loop is left with no token remaining
Return ==
    /\ parsePc = "while"
    /\ ptokens = <<>>
    /\ parseResult' = parse_return(CurrentFrame)
    /\ parsePc' = "done"
    /\ UNCHANGED <<parser, input, ptokens, abstract_syntax_forest, perrors,
                   knwon_sequence, pNodeIdx, iterTokens>>
    /\ UNCHANGED <<regexVars, lexerVars, exprVars, scanVars>>

NextParser == BlockStep \/ RuleStep \/ IterationEnd \/ Return

-----------------------------------------------------------------------------
(* parser/expression.rs : Expr, Position, Operator, ExpressionParser *)

\* Expr: Operator(token), Operand(token), Unknown(slice)
ExprOperator(token) == [e |-> "Operator", tokens |-> <<token>>]
ExprOperand(token) == [e |-> "Operand", tokens |-> <<token>>]
ExprUnknown(slice) == [e |-> "Unknown", tokens |-> slice]

Positions == {"Prefix", "Infix", "Sufix"}

Operator(kind, position) == [kind |-> kind, position |-> position]

\* Option<AST<Expr>> and the other Options of this file: <<>> is None, <<v>>
\* is Some(v)
NoTree == <<>>
Tree(ast) == <<ast>>

\* ExpressionParser::new.  `iter` is the order in which `operators.iter()`
\* visits the HashSet.
new_expression_parser ==
    [operators |-> {}, priority |-> <<>>, iter |-> <<>>,
     high_priority_group_start |-> <<>>, high_priority_group_end |-> <<>>]

\* `self.priority.insert(operator, priority)`
priority_insert(p, operator, priority) ==
    [o \in p.operators \cup {operator} |->
        IF o = operator THEN priority ELSE p.priority[o]]

\* ExpressionParser::add_operator.  The place a new operator takes in the
\* iteration order of the HashSet depends on the hasher's random keys: `first`
\* says whether it is visited before or after the operators already there.
add_operator(p, operator, priority, first) ==
    [p EXCEPT !.operators = p.operators \cup {operator},
              !.priority = priority_insert(p, operator, priority),
              !.iter = IF operator \in p.operators THEN p.iter
                       ELSE IF first THEN <<operator>> \o p.iter
                       ELSE Append(p.iter, operator)]

\* ExpressionParser::set_high_priority_group
set_high_priority_group(p, start, end) ==
    [p EXCEPT !.high_priority_group_start = <<start>>,
              !.high_priority_group_end = <<end>>]

\* `self.operators.iter().find(|e| e.kind == kind)`
find(p, kind) ==
    IF \E i \in 1..Len(p.iter) : p.iter[i].kind = kind
    THEN <<p.iter[CHOOSE i \in 1..Len(p.iter) :
                /\ p.iter[i].kind = kind
                /\ \A j \in 1..(i - 1) : p.iter[j].kind # kind]>>
    ELSE <<>>

\* `option.is_some_and(|e| e == kind)`
is_some_and(option, kind) == option # <<>> /\ option[1] = kind

RECURSIVE find_min_priority_loop(_, _, _, _, _, _)

find_min_priority_operator_unweighted(p, c, i, min_priority, min_priority_indx, priority_multiplier, operator) ==
    IF operator = <<>>
    THEN find_min_priority_loop(p, c, i + 1, min_priority, min_priority_indx,
                                priority_multiplier)
    ELSE IF min_priority = <<>> \/ p.priority[operator[1]] <= min_priority[1]
    THEN find_min_priority_loop(p, c, i + 1, <<p.priority[operator[1]]>>, <<i>>,
                                priority_multiplier)
    ELSE find_min_priority_loop(p, c, i + 1, min_priority, min_priority_indx,
                                priority_multiplier)

\* find_min_priority, `if let Some(operator) = ...find(...)` for token i
find_min_priority_operator(p, c, i, min_priority, min_priority_indx, priority_multiplier, operator) ==
    IF operator = <<>>
    THEN find_min_priority_loop(p, c, i + 1, min_priority, min_priority_indx,
                                priority_multiplier)
    ELSE IF \/ min_priority = <<>>
            \/ p.priority[operator[1]] * priority_multiplier <= min_priority[1]
    THEN find_min_priority_loop(p, c, i + 1,
                                <<p.priority[operator[1]] * priority_multiplier>>,
                                <<i>>, priority_multiplier)
    ELSE find_min_priority_loop(p, c, i + 1, min_priority, min_priority_indx,
                                priority_multiplier)

\* find_min_priority, `for i in 0..candidates.len()` (i counts from 0).  The
\* multiplier stays far below the range of usize for the slices explored.
find_min_priority_loop(p, c, i, min_priority, min_priority_indx, priority_multiplier) ==
    IF i >= Len(c) THEN min_priority_indx
    ELSE IF is_some_and(p.high_priority_group_start, c[i + 1].kind)
    THEN find_min_priority_loop(p, c, i + 1, min_priority, min_priority_indx,
                                priority_multiplier * 100)
    ELSE IF is_some_and(p.high_priority_group_end, c[i + 1].kind)
    THEN find_min_priority_loop(p, c, i + 1, min_priority, min_priority_indx,
                                priority_multiplier \div 100)
    ELSE find_min_priority_operator(p, c, i, min_priority, min_priority_indx,
                                    priority_multiplier, find(p, c[i + 1].kind))

find_min_priority(p, c) == find_min_priority_loop(p, c, 0, <<>>, <<>>, 1)

\* check_groups_validity, `for c in candidates` with its break
RECURSIVE check_groups_loop(_, _, _, _)
check_groups_next(p, c, i, open_groups) ==
    IF open_groups < 0 THEN open_groups
    ELSE check_groups_loop(p, c, i + 1, open_groups)

check_groups_loop(p, c, i, open_groups) ==
    IF i > Len(c) THEN open_groups
    ELSE IF c[i].kind = p.high_priority_group_start[1]
    THEN check_groups_next(p, c, i, open_groups + 1)
    ELSE IF c[i].kind = p.high_priority_group_end[1]
    THEN check_groups_next(p, c, i, open_groups - 1)
    ELSE check_groups_next(p, c, i, open_groups)

check_groups_validity(p, c) ==
    IF \/ p.high_priority_group_start = <<>>
       \/ p.high_priority_group_end = <<>>
       \/ c = <<>>
    THEN FALSE
    ELSE check_groups_loop(p, c, 1, 0) = 0

\* is_in_group, `for token in candidates`
RECURSIVE is_in_group_loop(_, _, _, _)
is_in_group_loop(p, c, i, open_groups) ==
    IF i > Len(c) THEN TRUE
    ELSE IF c[i].kind = p.high_priority_group_start[1]
    THEN is_in_group_loop(p, c, i + 1, open_groups + 1)
    ELSE IF c[i].kind = p.high_priority_group_end[1]
    THEN is_in_group_loop(p, c, i + 1, open_groups - 1)
    ELSE IF open_groups <= 0 THEN FALSE
    ELSE is_in_group_loop(p, c, i + 1, open_groups)

is_in_group_never(p, c) == FALSE

is_in_group(p, c) ==
    IF \/ p.high_priority_group_start = <<>>
       \/ p.high_priority_group_end = <<>>
       \/ c = <<>>
    THEN FALSE
    ELSE is_in_group_loop(p, c, 1, 0)

\* `self.strip_group(candidates).unwrap_or_default()`
strip_group(c) == IF Len(c) >= 2 THEN SubSeq(c, 2, Len(c) - 1) ELSE <<>>

\* Prefix and Sufix arms, once the operand has been parsed
one_child(token, operand) ==
    IF operand = NoTree THEN NoTree
    ELSE Tree(AST(ExprOperator(token), operand))

\* an Infix arm that needs both of its operands
two_children_both_needed(token, left, right) ==
    IF left = NoTree \/ right = NoTree THEN NoTree
    ELSE Tree(AST(ExprOperator(token), left \o right))

\* Infix arm, once both sides have been parsed
two_children(token, left, right) ==
    IF left = NoTree /\ right = NoTree THEN NoTree
    ELSE Tree(AST(ExprOperator(token), left \o right))

RECURSIVE parse_expression(_, _)

parse_at_prefix_anywhere(p, c, min_indx, operator) ==
    IF operator.position = "Prefix"
    THEN one_child(c[min_indx + 1],
                   parse_expression(p, SubSeq(c, min_indx + 2, Len(c))))
    ELSE IF operator.position = "Infix"
    THEN two_children(c[min_indx + 1],
                      parse_expression(p, SubSeq(c, 1, min_indx)),
                      parse_expression(p, SubSeq(c, min_indx + 2, Len(c))))
    ELSE IF min_indx # Len(c) - 1 THEN NoTree
    ELSE one_child(c[min_indx + 1], parse_expression(p, SubSeq(c, 1, min_indx)))

parse_at_sufix_anywhere(p, c, min_indx, operator) ==
    IF operator.position = "Prefix"
    THEN IF min_indx # 0 THEN NoTree
         ELSE one_child(c[min_indx + 1],
                        parse_expression(p, SubSeq(c, min_indx + 2, Len(c))))
    ELSE IF operator.position = "Infix"
    THEN two_children(c[min_indx + 1],
                      parse_expression(p, SubSeq(c, 1, min_indx)),
                      parse_expression(p, SubSeq(c, min_indx + 2, Len(c))))
    ELSE one_child(c[min_indx + 1], parse_expression(p, SubSeq(c, 1, min_indx)))

\* ExpressionParser::parse, `match operator.position` (min_indx counts from 0)
parse_at(p, c, min_indx, operator) ==
    IF operator.position = "Prefix"
    THEN IF min_indx # 0 THEN NoTree
         ELSE one_child(c[min_indx + 1],
                        parse_expression(p, SubSeq(c, min_indx + 2, Len(c))))
    ELSE IF operator.position = "Infix"
    THEN two_children(c[min_indx + 1],
                      parse_expression(p, SubSeq(c, 1, min_indx)),
                      parse_expression(p, SubSeq(c, min_indx + 2, Len(c))))
    ELSE IF min_indx # Len(c) - 1 THEN NoTree
    ELSE one_child(c[min_indx + 1], parse_expression(p, SubSeq(c, 1, min_indx)))

\* ExpressionParser::parse, `if let Some(min_indx) = min_indx ... else Unknown`
parse_split(p, c, min_indx) ==
    IF min_indx = <<>> THEN Tree(AST(ExprUnknown(c), <<>>))
    ELSE parse_at(p, c, min_indx[1], find(p, c[min_indx[1] + 1].kind)[1])

\* ExpressionParser::parse
parse_expression(p, c) ==
    IF c = <<>> THEN NoTree
    ELSE IF Len(c) = 1
    THEN IF find(p, c[1].kind) # <<>> THEN NoTree
         ELSE Tree(AST(ExprOperand(c[1]), <<>>))
    ELSE IF ~check_groups_validity(p, c) THEN NoTree
    ELSE IF is_in_group(p, c) THEN parse_expression(p, strip_group(c))
    ELSE parse_split(p, c, find_min_priority(p, c))

-----------------------------------------------------------------------------
(* Inputs of the expression parser *)

\* a call of add_operator or of set_high_priority_group
AddOperatorCall(kind, position, priority) ==
    [call |-> "add_operator", operator |-> Operator(kind, position),
     priority |-> priority, start |-> "", end |-> ""]
SetGroupCall(start, end) ==
    [call |-> "set_high_priority_group", operator |-> Operator("", "Infix"),
     priority |-> 0, start |-> start, end |-> end]

\* the parser of the doc example and of the tests parse_expr, parse_expr_nested
DocCalls ==
    <<AddOperatorCall("Plus", "Infix", 1), AddOperatorCall("Minus", "Infix", 1),
      AddOperatorCall("Mul", "Infix", 2), SetGroupCall("LParen", "RParen")>>

CallSequences ==
    {DocCalls,
     \* the same operators, set_high_priority_group never called
     SubSeq(DocCalls, 1, 3),
     <<AddOperatorCall("Plus", "Infix", 1)>>,
     \* no operator at all
     <<SetGroupCall("LParen", "RParen")>>,
     \* test parse_prefix
     <<AddOperatorCall("Plus", "Prefix", 1), SetGroupCall("LParen", "RParen")>>,
     \* test parse_sufix
     <<AddOperatorCall("Mul", "Sufix", 1), SetGroupCall("LParen", "RParen")>>,
     \* the three fixities together, as in test parse_mixed
     <<AddOperatorCall("Plus", "Prefix", 1), AddOperatorCall("Mul", "Infix", 2),
       AddOperatorCall("Minus", "Sufix", 3), SetGroupCall("LParen", "RParen")>>,
     \* the largest priority that a group still outweighs
     <<SetGroupCall("LParen", "RParen"), AddOperatorCall("Plus", "Infix", 99),
       AddOperatorCall("Mul", "Infix", 1)>>,
     \* one kind under two fixities
     <<AddOperatorCall("Plus", "Prefix", 1), AddOperatorCall("Plus", "Infix", 1),
       SetGroupCall("LParen", "RParen")>>,
     \* priority 0, which no multiplier raises
     <<SetGroupCall("LParen", "RParen"), AddOperatorCall("Plus", "Infix", 0)>>,
     \* priorities 100 apart
     <<SetGroupCall("LParen", "RParen"), AddOperatorCall("Plus", "Infix", 1),
       AddOperatorCall("Mul", "Infix", 100)>>}

ExprKinds == {"A", "Plus", "Mul", "LParen", "RParen"}

\* (A-B)*(C-D)+(E-F)*(G-H), test parse_expr
GroupedProducts ==
    <<"LParen", "A", "Minus", "B", "RParen", "Mul",
      "LParen", "C", "Minus", "D", "RParen", "Plus",
      "LParen", "E", "Minus", "F", "RParen", "Mul",
      "LParen", "G", "Minus", "H", "RParen">>

ExampleSlices ==
    {GroupedProducts,
     <<"A", "Minus", "B", "Minus", "C">>,              \* doc example expr5
     <<"A", "Plus", "B", "Minus", "C", "Plus", "A">>,
     <<"Plus", "A", "Plus", "A">>,                     \* test parse_prefix
     <<"Plus", "B", "A">>,
     <<"A", "Mul", "A", "Mul">>,                       \* test parse_sufix
     <<"C", "Mul", "Mul">>,
     <<"LParen", "A", "RParen", "LParen", "B", "RParen">>,
     <<"A", "Mul", "LParen", "A", "Plus", "A", "RParen">>}

ExprSlices ==
    {TokenSlice(ks) : ks \in SeqsUpTo(ExprKinds, MaxExpr) \cup ExampleSlices}

NotParsed == [done |-> FALSE, tree |-> NoTree]
Parsed(tree) == [done |-> TRUE, tree |-> tree]

-----------------------------------------------------------------------------
(* Two ExpressionParser values built by the same calls, then parse on each *)

InitExpr ==
    /\ calls \in CallSequences
    /\ callIdx = 1
    /\ exprParserA = new_expression_parser
    /\ exprParserB = new_expression_parser
    /\ candidates \in ExprSlices
    /\ resultA = NotParsed
    /\ resultB = NotParsed
    /\ exprPc = "run"

IdleExpr ==
    /\ calls = <<>>
    /\ callIdx = 1
    /\ exprParserA = new_expression_parser
    /\ exprParserB = new_expression_parser
    /\ candidates = <<>>
    /\ resultA = NotParsed
    /\ resultB = NotParsed
    /\ exprPc = "idle"

\* the next call is add_operator, made on both parsers
AddOperator ==
    /\ exprPc = "run"
    /\ callIdx <= Len(calls)
    /\ calls[callIdx].call = "add_operator"
    /\ \E firstA, firstB \in BOOLEAN :
        /\ (firstA \/ firstB) =>
                \E o \in exprParserA.operators : o.kind = calls[callIdx].operator.kind
        /\ exprParserA' = add_operator(exprParserA, calls[callIdx].operator,
                                       calls[callIdx].priority, firstA)
        /\ exprParserB' = add_operator(exprParserB, calls[callIdx].operator,
                                       calls[callIdx].priority, firstB)
    /\ callIdx' = callIdx + 1
    /\ UNCHANGED <<calls, candidates, resultA, resultB, exprPc>>
    /\ UNCHANGED <<regexVars, lexerVars, parserVars, scanVars>>

\* the next call is set_high_priority_group, made on both parsers
SetHighPriorityGroup ==
    /\ exprPc = "run"
    /\ callIdx <= Len(calls)
    /\ calls[callIdx].call = "set_high_priority_group"
    /\ exprParserA' = set_high_priority_group(exprParserA, calls[callIdx].start,
                                              calls[callIdx].end)
    /\ exprParserB' = set_high_priority_group(exprParserB, calls[callIdx].start,
                                              calls[callIdx].end)
    /\ callIdx' = callIdx + 1
    /\ UNCHANGED <<calls, candidates, resultA, resultB, exprPc>>
    /\ UNCHANGED <<regexVars, lexerVars, parserVars, scanVars>>

\* ExpressionParser::parse on the first parser
ParseA ==
    /\ exprPc = "run"
    /\ callIdx > Len(calls)
    /\ ~resultA.done
    /\ resultA' = Parsed(parse_expression(exprParserA, candidates))
    /\ UNCHANGED <<calls, callIdx, exprParserA, exprParserB, candidates, resultB, exprPc>>
    /\ UNCHANGED <<regexVars, lexerVars, parserVars, scanVars>>

\* ExpressionParser::parse on the second parser
ParseB ==
    /\ exprPc = "run"
    /\ callIdx > Len(calls)
    /\ ~resultB.done
    /\ resultB' = Parsed(parse_expression(exprParserB, candidates))
    /\ UNCHANGED <<calls, callIdx, exprParserA, exprParserB, candidates, resultA, exprPc>>
    /\ UNCHANGED <<regexVars, lexerVars, parserVars, scanVars>>

NextExpr == AddOperator \/ SetHighPriorityGroup \/ ParseA \/ ParseB

-----------------------------------------------------------------------------
(* parser/expression.rs : the arithmetic of find_min_priority on usize *)

\* A usize is held as its base-100 digits, least significant first, with no
\* leading zero digit (0 is the empty sequence): the values reached exceed the
\* integers of the model checker.
usize_of(n) ==
    IF n = 0 THEN <<>> ELSE IF n < 100 THEN <<n>> ELSE <<n % 100, n \div 100>>

RECURSIVE trim(_)
trim(x) ==
    IF x # <<>> /\ x[Len(x)] = 0 THEN trim(SubSeq(x, 1, Len(x) - 1)) ELSE x

\* usize::MAX of a 64-bit target, 18446744073709551615, and 2^64
USIZE_MAX == <<15, 16, 55, 9, 37, 7, 44, 67, 44, 18>>
TwoPow64 == <<16, 16, 55, 9, 37, 7, 44, 67, 44, 18>>

RECURSIVE leq_from(_, _, _)
leq_from(x, y, i) ==
    IF i = 0 THEN TRUE
    ELSE IF x[i] # y[i] THEN x[i] < y[i]
    ELSE leq_from(x, y, i - 1)

\* x <= y
less_eq(x, y) == IF Len(x) # Len(y) THEN Len(x) < Len(y) ELSE leq_from(x, y, Len(x))

\* the exact product k * x, k a number below 10000 / 99
RECURSIVE mul_digits(_, _, _)
mul_digits(k, x, carry) ==
    IF x = <<>> THEN usize_of(carry)
    ELSE <<(k * Head(x) + carry) % 100>>
            \o mul_digits(k, Tail(x), (k * Head(x) + carry) \div 100)

times(k, x) == trim(mul_digits(k, x, 0))

\* x - y for x >= y
RECURSIVE sub_digits(_, _, _)
sub_digits(x, y, borrow) ==
    IF x = <<>> THEN <<>>
    ELSE IF y = <<>>
    THEN <<(Head(x) - borrow + 100) % 100>>
            \o sub_digits(Tail(x), <<>>, IF Head(x) - borrow < 0 THEN 1 ELSE 0)
    ELSE <<(Head(x) - Head(y) - borrow + 100) % 100>>
            \o sub_digits(Tail(x), Tail(y),
                          IF Head(x) - Head(y) - borrow < 0 THEN 1 ELSE 0)

\* x modulo 2^64
RECURSIVE wrapping(_)
wrapping(x) ==
    IF less_eq(x, USIZE_MAX) THEN x
    ELSE wrapping(trim(sub_digits(x, TwoPow64, 0)))

\* a build in which products are formed in a type that never overflows
mul_never_overflows(k, x) ==
    {[panic |-> FALSE, overflow |-> FALSE, v |-> times(k, x)]}

\* `k * x` on usize.  A product that fits is the product; for one that does
\* not, the build decides: a panic with overflow checks, the product modulo
\* 2^64 without them.
mul(k, x) ==
    IF less_eq(times(k, x), USIZE_MAX)
    THEN {[panic |-> FALSE, overflow |-> FALSE, v |-> times(k, x)]}
    ELSE {[panic |-> TRUE, overflow |-> TRUE, v |-> <<>>],
          [panic |-> FALSE, overflow |-> TRUE, v |-> wrapping(times(k, x))]}

\* `priority_multiplier / 100`
div_100(x) == IF x = <<>> THEN <<>> ELSE Tail(x)

-----------------------------------------------------------------------------
(* find_min_priority as a state machine: one turn of its for loop per step *)

\* A + (( A * A )) and A + (( A )) * A with d nested groups, the slices parse
\* hands to find_min_priority whole
ScanSlices ==
    LET Nested(d, inner) ==
            [i \in 1..(2 * d + Len(inner)) |->
                IF i <= d THEN "LParen"
                ELSE IF i > d + Len(inner) THEN "RParen"
                ELSE inner[i - d]]
    IN  {TokenSlice(<<"A", "Plus">> \o Nested(d, <<"A", "Mul", "A">>)) :
            d \in 0..MaxDepth}
        \cup {TokenSlice(<<"A", "Plus">> \o Nested(d, <<"A">>) \o <<"Mul", "A">>) :
                d \in 0..MaxDepth}

\* add_operator(+ Infix), add_operator(* Infix), set_high_priority_group('(', ')')
\* with the priorities 1 and 2 of the doc example, 18 and 18, 2 and 19
ScanParsers ==
    {set_high_priority_group(
        add_operator(add_operator(new_expression_parser,
                                  Operator("Plus", "Infix"), pr[1], FALSE),
                     Operator("Mul", "Infix"), pr[2], FALSE),
        "LParen", "RParen") : pr \in {<<1, 2>>, <<18, 18>>, <<2, 19>>}}

InitScan ==
    /\ scanParser \in ScanParsers
    /\ scanSlice \in ScanSlices
    /\ scanIdx = 0
    /\ scanMultiplier = usize_of(1)
    /\ scanMinPriority = <<>>
    /\ scanMinIndx = <<>>
    /\ scanOverflowed = FALSE
    /\ scanPc = "for"

IdleScan ==
    /\ scanParser = new_expression_parser
    /\ scanSlice = <<>>
    /\ scanIdx = 0
    /\ scanMultiplier = usize_of(1)
    /\ scanMinPriority = <<>>
    /\ scanMinIndx = <<>>
    /\ scanOverflowed = FALSE
    /\ scanPc = "idle"

ScanKind == scanSlice[scanIdx + 1].kind

AtGroupStart == is_some_and(scanParser.high_priority_group_start, ScanKind)

AtGroupEnd ==
    (~AtGroupStart) /\ is_some_and(scanParser.high_priority_group_end, ScanKind)

\* `priority_multiplier = priority_multiplier * 100; continue;`
ScanGroupStart ==
    /\ scanPc = "for" /\ scanIdx < Len(scanSlice)
    /\ AtGroupStart
    /\ \E r \in mul(100, scanMultiplier) :
        /\ scanOverflowed' = (scanOverflowed \/ r.overflow)
        /\ IF r.panic
           THEN scanPc' = "panic" /\ UNCHANGED <<scanIdx, scanMultiplier>>
           ELSE /\ scanMultiplier' = r.v
                /\ scanIdx' = scanIdx + 1
                /\ scanPc' = "for"
    /\ UNCHANGED <<scanParser, scanSlice, scanMinPriority, scanMinIndx>>
    /\ UNCHANGED <<regexVars, lexerVars, parserVars, exprVars>>

\* `priority_multiplier = priority_multiplier / 100; continue;`
ScanGroupEnd ==
    /\ scanPc = "for" /\ scanIdx < Len(scanSlice)
    /\ AtGroupEnd
    /\ scanMultiplier' = div_100(scanMultiplier)
    /\ scanIdx' = scanIdx + 1
    /\ UNCHANGED <<scanParser, scanSlice, scanMinPriority, scanMinIndx,
                   scanOverflowed, scanPc>>
    /\ UNCHANGED <<regexVars, lexerVars, parserVars, exprVars>>

\* the token is a registered operator: `priority * priority_multiplier` is
\* compared with min_priority and kept when it is not larger
ScanOperator ==
    /\ scanPc = "for" /\ scanIdx < Len(scanSlice)
    /\ ~AtGroupStart /\ ~AtGroupEnd
    /\ find(scanParser, ScanKind) # <<>>
    /\ \E r \in mul(scanParser.priority[find(scanParser, ScanKind)[1]], scanMultiplier) :
        /\ scanOverflowed' = (scanOverflowed \/ r.overflow)
        /\ IF r.panic
           THEN /\ scanPc' = "panic"
                /\ UNCHANGED <<scanIdx, scanMinPriority, scanMinIndx>>
           ELSE /\ scanPc' = "for"
                /\ scanIdx' = scanIdx + 1
                /\ IF scanMinPriority = <<>> \/ less_eq(r.v, scanMinPriority[1])
                   THEN scanMinPriority' = <<r.v>> /\ scanMinIndx' = <<scanIdx>>
                   ELSE UNCHANGED <<scanMinPriority, scanMinIndx>>
    /\ UNCHANGED <<scanParser, scanSlice, scanMultiplier>>
    /\ UNCHANGED <<regexVars, lexerVars, parserVars, exprVars>>

\* the token is neither a grouping token nor an operator
ScanOperand ==
    /\ scanPc = "for" /\ scanIdx < Len(scanSlice)
    /\ ~AtGroupStart /\ ~AtGroupEnd
    /\ find(scanParser, ScanKind) = <<>>
    /\ scanIdx' = scanIdx + 1
    /\ UNCHANGED <<scanParser, scanSlice, scanMultiplier, scanMinPriority,
                   scanMinIndx, scanOverflowed, scanPc>>
    /\ UNCHANGED <<regexVars, lexerVars, parserVars, exprVars>>

\* the loop is over: `min_priority_indx` is returned
ScanReturn ==
    /\ scanPc = "for" /\ scanIdx = Len(scanSlice)
    /\ scanPc' = "done"
    /\ UNCHANGED <<scanParser, scanSlice, scanIdx, scanMultiplier, scanMinPriority,
                   scanMinIndx, scanOverflowed>>
    /\ UNCHANGED <<regexVars, lexerVars, parserVars, exprVars>>

NextScan == ScanGroupStart \/ ScanGroupEnd \/ ScanOperator \/ ScanOperand \/ ScanReturn

-----------------------------------------------------------------------------
(* The specifications: one per component *)

Init == InitRegex /\ IdleLexer /\ IdleParser /\ IdleExpr /\ IdleScan

Next == NextRegex

Spec == Init /\ [][Next]_vars

LexerInit == IdleRegex /\ InitLexer /\ IdleParser /\ IdleExpr /\ IdleScan

SpecLexer == LexerInit /\ [][NextLexer]_vars

ParserInit == IdleRegex /\ IdleLexer /\ InitParser /\ IdleExpr /\ IdleScan

SpecParser == ParserInit /\ [][NextParser]_vars

ExprInit == IdleRegex /\ IdleLexer /\ IdleParser /\ InitExpr /\ IdleScan

SpecExpr == ExprInit /\ [][NextExpr]_vars

ScanInit == IdleRegex /\ IdleLexer /\ IdleParser /\ IdleExpr /\ InitScan

SpecScan == ScanInit /\ [][NextScan]_vars

-----------------------------------------------------------------------------
(* Claims about the pattern engine *)

BothCalled == matchRes.done /\ splitRes.done

SplitIsWhole == splitRes.matched = candidate /\ splitRes.others = <<>>

\* C1 as stated: match(P, s) is true iff split_first(P, s) returns the whole
\* of s as prefix (and an empty remainder).
C1_MatchIffSplitWhole ==
    (BothCalled /\ ~matchRes.panic /\ ~splitRes.panic)
        => (matchRes.val <=> SplitIsWhole)

\* C1 amended: whenever match(P, s) returns true, split_first(P, s) returns
\* the whole of s as prefix and an empty remainder (the converse fails).
C1_MatchImpliesSplitWhole ==
    (BothCalled /\ matchRes.val) => ((~splitRes.panic) /\ SplitIsWhole)

C1_Witness ==
    /\ BothCalled /\ matchRes.val /\ SplitIsWhole
    /\ Len(pattern) = 2 /\ Len(candidate) >= 2

\* C2: the length a Group element reports as consumed is the total length of
\* its fully successful passes only, so Group([a+, b{1}], +) consumes 2
\* symbols of a,b,a and match rejects a,b,a.
C2_GroupConsumesFullPassesOnly ==
    BothCalled =>
        /\ \A i \in 1..Len(pattern) :
              (pattern[i].t = "Group" /\ pattern[i].es # <<>>) =>
                  match_element(Some(candidate), pattern[i]).passed
                      = group_loop(candidate, pattern[i].es, 0, 0, 0).full
        /\ (pattern = <<Group(AB, OneOrMany)>> /\ candidate = <<1, 2, 1>>) =>
              (Len(splitRes.matched) = 2 /\ ~matchRes.val)

\* the quantifier laws as the claim words them
QuantifierAccepts(k, qt) ==
    CASE qt.q = "Exactly" -> k = qt.n
      [] qt.q = "ZeroOrOne" -> k <= 1
      [] qt.q = "OneOrMany" -> k >= 1
      [] qt.q = "ZeroOrMany" -> k >= 0

\* candidate is k copies of one symbol that the one-element pattern is about
IsRunFor(e) ==
    /\ e.t \in {"Item", "Set"}
    /\ \E v \in Symbols :
          /\ e.lo <= v /\ v <= e.hi
          /\ \A i \in 1..Len(candidate) : candidate[i] = v

\* C3: for the one-element pattern Item(v, q) (or Set(low, high, q) around
\* v) and a sequence of k copies of v, match returns true iff k satisfies q.
C3_QuantifierLaws ==
    (matchRes.done /\ Len(pattern) = 1 /\ IsRunFor(pattern[1])) =>
        /\ ~matchRes.panic
        /\ matchRes.val <=> QuantifierAccepts(Len(candidate), pattern[1].qt)

C3_Witness ==
    /\ matchRes.done /\ matchRes.val
    /\ \E n \in 1..MaxN : pattern = <<Item(1, Exactly(n))>> /\ Len(candidate) = n
    /\ IsRunFor(pattern[1])

\* number of leading symbols of s equal to x
RECURSIVE LeadingRun(_, _)
LeadingRun(s, x) ==
    IF s # <<>> /\ Head(s) = x THEN 1 + LeadingRun(Tail(s), x) ELSE 0

GreedyThenOne(i) ==
    /\ i + 1 <= Len(pattern)
    /\ pattern[i].t = "Item" /\ pattern[i].qt \in {ZeroOrMany, OneOrMany}
    /\ pattern[i + 1] = Item(pattern[i].lo, Exactly(1))

\* C4: elements are evaluated once each, left to right, with no retry: a
\* pattern in which Item(x, ZeroOrMany) or Item(x, OneOrMany) is immediately
\* followed by Item(x, Exactly(1)) is never matched, and when the pattern is
\* just that pair split_first stops after the first element's whole run.
C4_NoBacktracking ==
    (BothCalled /\ \E i \in 1..Len(pattern) : GreedyThenOne(i)) =>
        /\ ~matchRes.val
        /\ (Len(pattern) = 2 /\ pattern[1].qt = ZeroOrMany) =>
              Len(splitRes.matched) = LeadingRun(candidate, pattern[1].lo)

C4_Witness ==
    /\ BothCalled /\ ~matchRes.val /\ ~matchRes.panic
    /\ pattern = <<Item(1, ZeroOrMany), Item(1, Exactly(1))>>
    /\ candidate = <<1, 1>>
    /\ splitRes.matched = <<1, 1>>

-----------------------------------------------------------------------------
(* Claims about the tokenizer *)

IsUnmatched(k) == ~is_whitespace(k.char)

\* the skipped characters that are not whitespace, in the order of the input
Unmatched == SelectSeq(skipped, IsUnmatched)

\* C5: tokenize_content returns Err(E) iff some non-whitespace character was
\* left unmatched by a full pass over the nodes; E holds exactly one error per
\* such character, in input order, at that character's line and column; the
\* scan goes on to the end of the input and Err carries no tokens; otherwise
\* Ok carries every token in input order.
C5_ErrorsAreTheUnmatchedCharacters ==
    lexPc = "done" =>
        /\ lineNo = Len(lines(content))
        /\ IF Unmatched # <<>>
           THEN /\ lexResult.kind = "Err"
                /\ lexResult.tokens = <<>>
                /\ lexResult.errors =
                     [i \in 1..Len(Unmatched) |->
                        [location |-> Location(Unmatched[i].line, Unmatched[i].offset)]]
           ELSE /\ lexResult.kind = "Ok"
                /\ lexResult.tokens = tokens

\* the C6 example: N1 = Item(a, Exactly(1)) -> K1, N2 = Item(a, Exactly(1)) -> K2
TwoNodesForA ==
    <<LexerNode(<<Item(97, Exactly(1))>>, 1), LexerNode(<<Item(97, Exactly(1))>>, 2)>>

Kinds(toks) == [i \in 1..Len(toks) |-> toks[i].kind]

\* C6: in one pass each node is tried once, in registration order, against
\* the remainder left by the nodes tried before it; a node that emits a token
\* is followed by the next node, not by the first one; with the nodes N1, N2
\* above the line "aa" gives the kinds K1, K2.
C6_EachNodeOncePerPass ==
    /\ [][(lexPc = "nodes" /\ lexPc' = "nodes") =>
            /\ nodeIdx' = nodeIdx + 1
            /\ \/ tokens' = tokens /\ stream' = stream
               \/ /\ Len(tokens') = Len(tokens) + 1
                  /\ tokens'[Len(tokens')].kind = nodes[nodeIdx].kind
                  /\ stream = tokens'[Len(tokens')].literal \o stream']_vars
    /\ []((lexPc = "done" /\ nodes = TwoNodesForA /\ content = <<97, 97>>) =>
            (lexResult.kind = "Ok" /\ Kinds(lexResult.tokens) = <<1, 2>>))

C6_Witness ==
    /\ lexPc = "done" /\ nodes = TwoNodesForA /\ content = <<97, 97>>
    /\ Kinds(lexResult.tokens) = <<1, 2>>

\* C7: every token carries the zero-based index of its line and a column
\* equal to the number of characters of that line before its first character.
C7_ColumnCountsCharacters ==
    /\ lexPc \in {"while", "nodes"} =>
         /\ location.line = lineNo
         /\ location.column = Len(line_content) - Len(stream)
    /\ \A i \in 1..Len(tokens) :
         LET t == tokens[i]
         IN  /\ t.location.line < Len(lines(content))
             /\ SubSeq(lines(content)[t.location.line + 1], t.location.column + 1,
                       t.location.column + Len(t.literal)) = t.literal

-----------------------------------------------------------------------------
(* Claims about the forest builder (checked under SpecParser) *)

\* toks is one well-formed block, its two delimiters included, whose interior
\* parses
IsBlockThatParses(toks) ==
    /\ toks # <<>>
    /\ slice_block(parser, toks).ok
    /\ slice_block(parser, toks).tok = toks
    /\ parse(parser, SubSeq(toks, 2, Len(toks) - 1)).kind = "Ok"

TwoAdjacentBlocks ==
    \E n \in 1..(Len(input) - 1) :
        /\ IsBlockThatParses(SubSeq(input, 1, n))
        /\ IsBlockThatParses(SubSeq(input, n + 1, Len(input)))

\* C8: parse records UnparsedSequence and stops only in an iteration in which
\* neither block handling nor a rule consumed a token, and a stream made of two
\* adjacent well-formed blocks whose interiors parse is accepted with two
\* block nodes.
C8_FatalOnlyWhenNothingConsumed ==
    /\ parsePc = "fatal" => ptokens = iterTokens
    /\ (parsePc \in {"done", "fatal"} /\ TwoAdjacentBlocks) =>
            /\ parseResult.kind = "Ok"
            /\ Len(parseResult.forest) = 2
            /\ \A i \in 1..Len(parseResult.forest) :
                    parseResult.forest[i].kind = parser.block_start

\* the rule about to be tried matches a prefix of k >= 1 of the remaining
\* tokens and its producer returns an error
ProducerFails(node) ==
    /\ ~node.ok
    /\ ~split_first(node.regex, token_types(ptokens)).panic
    /\ split_first(node.regex, token_types(ptokens)).matched # <<>>

MatchedTokens(node) ==
    SubSeq(ptokens, 1, Len(split_first(node.regex, token_types(ptokens)).matched))

\* C9: when a rule matches k >= 1 tokens and its producer returns an error,
\* parse records the returned errors and resumes exactly one token after the
\* position where the rule was tried, whatever k is, and goes on parsing.
C9_ProducerErrorSkipsOneToken ==
    [][(parsePc = "rules" /\ pNodeIdx <= Len(parser.nodes)
            /\ ProducerFails(parser.nodes[pNodeIdx])) =>
        (/\ parsePc' = "rules"
         /\ ptokens' = Tail(ptokens)
         /\ perrors' = perrors \o
                produce(parser.nodes[pNodeIdx], MatchedTokens(parser.nodes[pNodeIdx])).errors)]_vars

\* C10: with rules whose patterns are non-empty, parse never panics, whatever
\* the token stream, a producer error on a match that reaches the last token
\* included.
C10_ParseNeverPanics ==
    (\A i \in 1..Len(parser.nodes) : parser.nodes[i].regex # <<>>) =>
        parsePc # "panic"

\* the kinds of the trees of a forest, in order
ForestKinds(forest) == [i \in 1..Len(forest) |-> forest[i].kind]

\* C11: in one iteration of the main loop at most one rule consumes tokens,
\* the first in registration order whose pattern yields a non-empty prefix;
\* with two rules for A, producing X then Y, the stream A A yields [X, X].
C11_OneRulePerIteration ==
    /\ [][(parsePc = "rules" /\ parsePc' = "rules" /\ ptokens' # ptokens) =>
            ~knwon_sequence]_vars
    /\ []((parsePc = "done" /\ parser.nodes = <<RuleA, RuleAasB>>
                /\ token_types(input) = <<KindA, KindA>>) =>
            (parseResult.kind = "Ok"
                /\ ForestKinds(parseResult.forest) = <<RuleA.out, RuleA.out>>))

\* opening delimiters minus closing delimiters among the first n tokens
Depth(toks, n) ==
    Cardinality({i \in 1..n : toks[i].kind = parser.block_start})
        - Cardinality({i \in 1..n : toks[i].kind = parser.block_end})

\* the length of the block that begins at the first token of toks
BlockLength(toks) ==
    IF \E n \in 1..Len(toks) : Depth(toks, n) = 0
    THEN CHOOSE n \in 1..Len(toks) :
            Depth(toks, n) = 0 /\ \A m \in 1..(n - 1) : Depth(toks, m) # 0
    ELSE Len(toks)

\* the forest the claim describes, for rules that each turn one token into one
\* childless tree of the token's kind
RECURSIVE Shape(_)
ShapeOfBlock(toks, n) ==
    <<AST(parser.block_start,
          Append(Shape(SubSeq(toks, 2, n - 1)), AST(parser.block_end, <<>>)))>>
        \o Shape(SubSeq(toks, n + 1, Len(toks)))

Shape(toks) ==
    IF toks = <<>> THEN <<>>
    ELSE IF toks[1].kind = parser.block_start
    THEN ShapeOfBlock(toks, BlockLength(toks))
    ELSE <<AST(toks[1].kind, <<>>)>> \o Shape(Tail(toks))

\* the top-level blocks of toks, as the nodes the claim describes, their
\* interiors parsed by the rules
RECURSIVE BlocksOf(_)
BlockNodeThenRest(toks, n) ==
    <<AST(parser.block_start,
          Append(parse(parser, SubSeq(toks, 2, n - 1)).forest,
                 AST(parser.block_end, <<>>)))>>
        \o BlocksOf(SubSeq(toks, n + 1, Len(toks)))

BlocksOf(toks) ==
    IF toks = <<>> THEN <<>>
    ELSE IF toks[1].kind = parser.block_start
    THEN BlockNodeThenRest(toks, BlockLength(toks))
    ELSE BlocksOf(Tail(toks))

IsBlockNode(t) == t.kind = parser.block_start

OneTokenRules == parser.nodes \in {<<RuleA, RuleB>>, <<RuleB, RuleA>>}

\* C12: when parse returns Ok(forest), the forest holds, in input order, the
\* producers' trees and one node per top-level block; a block node has kind
\* block-open, and its children are the forest of the tokens strictly between
\* its delimiters followed by one childless block-close node.
C12_ForestShape ==
    (parsePc = "done" /\ parseResult.kind = "Ok") =>
        /\ SelectSeq(parseResult.forest, IsBlockNode) = BlocksOf(input)
        /\ OneTokenRules => parseResult.forest = Shape(input)

C12_Witness ==
    /\ parsePc = "done"
    /\ parseResult.kind = "Ok"
    /\ OneTokenRules
    /\ token_types(input) = NestedBlocks

-----------------------------------------------------------------------------
(* Claims about the expression parser (checked under SpecExpr) *)

HasGroups(p) ==
    p.high_priority_group_start # <<>> /\ p.high_priority_group_end # <<>>

RegisteredKinds(p) == {o.kind : o \in p.operators}

\* no kind is registered under two fixities
SingleFixity(p) ==
    \A o1, o2 \in p.operators : o1.kind = o2.kind => o1 = o2

PriorityOfKind(p, kind) == p.priority[CHOOSE o \in p.operators : o.kind = kind]

IsDelimiter(p, token) ==
    \/ is_some_and(p.high_priority_group_start, token.kind)
    \/ is_some_and(p.high_priority_group_end, token.kind)

\* opening minus closing grouping tokens among the first n tokens of c
GroupDepth(p, c, n) ==
    Cardinality({i \in 1..n : is_some_and(p.high_priority_group_start, c[i].kind)})
        - Cardinality({i \in 1..n : is_some_and(p.high_priority_group_end, c[i].kind)})

Balanced(p, c) ==
    /\ GroupDepth(p, c, Len(c)) = 0
    /\ \A n \in 1..Len(c) : GroupDepth(p, c, n) >= 0

\* c is one group wrapped around everything else
WrappedInOneGroup(p, c) ==
    /\ Len(c) >= 2
    /\ is_some_and(p.high_priority_group_start, c[1].kind)
    /\ GroupDepth(p, c, Len(c)) = 0
    /\ \A n \in 1..(Len(c) - 1) : GroupDepth(p, c, n) >= 1

\* c without the groups wrapped around the whole of it
RECURSIVE Core(_, _)
Core(p, c) ==
    IF WrappedInOneGroup(p, c) THEN Core(p, SubSeq(c, 2, Len(c) - 1)) ELSE c

\* the positions of c that hold a registered operator outside every group
DepthZeroOperators(p, c) ==
    {i \in 1..Len(c) : /\ ~IsDelimiter(p, c[i])
                       /\ c[i].kind \in RegisteredKinds(p)
                       /\ GroupDepth(p, c, i) = 0}

\* the tree is rooted at an operator of c that stands outside every group and
\* whose priority number is the least among those
RootedAtWeakest(p, c, tree) ==
    \E i \in DepthZeroOperators(p, c) :
        /\ tree.kind = ExprOperator(c[i])
        /\ \A j \in DepthZeroOperators(p, c) :
                PriorityOfKind(p, c[i].kind) <= PriorityOfKind(p, c[j].kind)

\* trees over the tokens of the slice handed to parse
Leaf(i) == AST(ExprOperand(candidates[i]), <<>>)
Node(i, children) == AST(ExprOperator(candidates[i]), children)

\* +( *( -(A,B), -(C,D) ), *( -(E,F), -(G,H) ) ) over GroupedProducts
GroupedProductsTree ==
    Node(12, <<Node(6, <<Node(3, <<Leaf(2), Leaf(4)>>),
                         Node(9, <<Leaf(8), Leaf(10)>>)>>),
               Node(18, <<Node(15, <<Leaf(14), Leaf(16)>>),
                          Node(21, <<Leaf(20), Leaf(22)>>)>>)>>)

\* C13: with priorities in 1..99 and a balanced slice, the tree parse returns
\* is rooted at an operator of least priority number among the operators that
\* stand at grouping depth 0 of the slice (its wrapping groups removed), and
\* (A-B)*(C-D)+(E-F)*(G-H) gives +( *( -(A,B), -(C,D) ), *( -(E,F), -(G,H) ) ).
C13_RootIsWeakestAtDepthZero ==
    /\ (/\ resultA.done /\ resultA.tree # NoTree
        /\ HasGroups(exprParserA) /\ SingleFixity(exprParserA)
        /\ \A o \in exprParserA.operators : exprParserA.priority[o] \in 1..99
        /\ Balanced(exprParserA, candidates)
        /\ DepthZeroOperators(exprParserA, Core(exprParserA, candidates)) # {})
       => RootedAtWeakest(exprParserA, Core(exprParserA, candidates), resultA.tree[1])
    /\ (resultA.done /\ calls = DocCalls /\ token_types(candidates) = GroupedProducts)
       => resultA.tree = Tree(GroupedProductsTree)

C13_Witness ==
    /\ resultA.done
    /\ calls = DocCalls
    /\ token_types(candidates) = GroupedProducts
    /\ resultA.tree # NoTree

\* c is operand (operator operand)^N with N >= 2, the operators infix and of
\* one priority, and no grouping token
IsChain(p, c) ==
    /\ Len(c) >= 5
    /\ Len(c) % 2 = 1
    /\ SingleFixity(p)
    /\ \A i \in 1..Len(c) :
        /\ ~IsDelimiter(p, c[i])
        /\ (i % 2 = 1) => c[i].kind \notin RegisteredKinds(p)
        /\ (i % 2 = 0) =>
            /\ Operator(c[i].kind, "Infix") \in p.operators
            /\ PriorityOfKind(p, c[i].kind) = PriorityOfKind(p, c[2].kind)

RECURSIVE LeftLeaning(_)
LeftLeaning(c) ==
    IF Len(c) = 1 THEN AST(ExprOperand(c[1]), <<>>)
    ELSE AST(ExprOperator(c[Len(c) - 1]),
             <<LeftLeaning(SubSeq(c, 1, Len(c) - 2)),
               AST(ExprOperand(c[Len(c)]), <<>>)>>)

\* C14: a chain of N >= 2 infix operators of equal priority, with no grouping,
\* parses as a left-leaning tree: the last operator at the root, the last
\* operand as its right child, the tree of the rest of the chain as its left
\* child.
C14_ChainsLeanLeft ==
    (resultA.done /\ IsChain(exprParserA, candidates)) =>
        resultA.tree = Tree(LeftLeaning(candidates))

\* the slice wrapped in one more pair of grouping tokens
Wrap(p, c) ==
    <<Token(Location(1, 0), p.high_priority_group_start[1], <<>>)>> \o c
        \o <<Token(Location(1, 1), p.high_priority_group_end[1], <<>>)>>

LoneDelimiter(p, c) == Len(c) = 1 /\ IsDelimiter(p, c[1])

\* C15 as stated: for every slice on which parse returns a tree, the slice
\* wrapped in one more pair of grouping tokens parses to the identical tree.
C15_WrappingKeepsTheTree ==
    (resultA.done /\ HasGroups(exprParserA) /\ resultA.tree # NoTree) =>
        parse_expression(exprParserA, Wrap(exprParserA, candidates)) = resultA.tree

\* C15, amended: the same, for every slice that is not a lone grouping token.
C15_WrappingKeepsTheTreeUnlessLoneDelimiter ==
    (/\ resultA.done /\ HasGroups(exprParserA) /\ resultA.tree # NoTree
     /\ ~LoneDelimiter(exprParserA, candidates)) =>
        parse_expression(exprParserA, Wrap(exprParserA, candidates)) = resultA.tree

C15_Witness ==
    /\ resultA.done
    /\ HasGroups(exprParserA)
    /\ Len(candidates) >= 3
    /\ resultA.tree # NoTree
    /\ resultA.tree[1].kind.e = "Operator"
    /\ Len(resultA.tree[1].children) = 2

\* C16: on a parser for which set_high_priority_group was never called, a
\* slice operand, registered infix operator, operand parses to an Operator
\* node with the two Operand children.
C16_GroupingIsOptional ==
    (/\ resultA.done
     /\ ~HasGroups(exprParserA)
     /\ Len(candidates) = 3
     /\ candidates[1].kind \notin RegisteredKinds(exprParserA)
     /\ candidates[3].kind \notin RegisteredKinds(exprParserA)
     /\ SingleFixity(exprParserA)
     /\ Operator(candidates[2].kind, "Infix") \in exprParserA.operators) =>
        resultA.tree = Tree(Node(2, <<Leaf(1), Leaf(3)>>))

\* C17: a balanced slice of two or more tokens that holds no registered
\* operator kind and is not one group wrapped around the whole of it parses
\* to an Unknown leaf, without children, that carries exactly the slice.
C17_NoOperatorGivesUnknown ==
    (/\ resultA.done
     /\ HasGroups(exprParserA)
     /\ Len(candidates) >= 2
     /\ Balanced(exprParserA, candidates)
     /\ \A i \in 1..Len(candidates) : candidates[i].kind \notin RegisteredKinds(exprParserA)
     /\ ~WrappedInOneGroup(exprParserA, candidates)) =>
        resultA.tree = Tree(AST(ExprUnknown(candidates), <<>>))

\* parse reaches its `match operator.position` for the slice c, with an
\* operator of the given fixity
SplitsAt(p, c, position) ==
    /\ Len(c) >= 2
    /\ check_groups_validity(p, c)
    /\ ~is_in_group(p, c)
    /\ find_min_priority(p, c) # <<>>
    /\ find(p, c[find_min_priority(p, c)[1] + 1].kind)[1].position = position

PrefixCalls ==
    <<AddOperatorCall("Plus", "Prefix", 1), SetGroupCall("LParen", "RParen")>>

\* C18: when the split operator has Prefix fixity, parse returns an Operator
\* node with exactly one child, the tree of tokens 1..end, iff the operator is
\* at index 0 and that remainder parses, and no result otherwise; with prefix
\* +, the slice + A + A gives no result and + B A gives +(Unknown[B, A]).
C18_PrefixArm ==
    /\ (resultA.done /\ SplitsAt(exprParserA, candidates, "Prefix")) =>
        IF /\ find_min_priority(exprParserA, candidates) = <<0>>
           /\ parse_expression(exprParserA, Tail(candidates)) # NoTree
        THEN resultA.tree =
                Tree(Node(1, parse_expression(exprParserA, Tail(candidates))))
        ELSE resultA.tree = NoTree
    /\ (resultA.done /\ calls = PrefixCalls) =>
        /\ token_types(candidates) = <<"Plus", "A", "Plus", "A">> =>
                resultA.tree = NoTree
        /\ token_types(candidates) = <<"Plus", "B", "A">> =>
                resultA.tree =
                    Tree(Node(1, <<AST(ExprUnknown(SubSeq(candidates, 2, 3)), <<>>)>>))

C18_Witness ==
    /\ resultA.done
    /\ calls = PrefixCalls
    /\ token_types(candidates) = <<"Plus", "B", "A">>
    /\ resultA.tree # NoTree

SufixCalls ==
    <<AddOperatorCall("Mul", "Sufix", 1), SetGroupCall("LParen", "RParen")>>

\* all the tokens of c but the last
Front(c) == SubSeq(c, 1, Len(c) - 1)

\* C19: when the split operator has Sufix fixity, parse returns an Operator
\* node with exactly one child, the tree of the tokens before it, iff the
\* operator is the last token and that prefix parses, and no result
\* otherwise; with postfix *, A * A * gives no result and C * * gives *(*(C)).
C19_SufixArm ==
    /\ (resultA.done /\ SplitsAt(exprParserA, candidates, "Sufix")) =>
        IF /\ find_min_priority(exprParserA, candidates) = <<Len(candidates) - 1>>
           /\ parse_expression(exprParserA, Front(candidates)) # NoTree
        THEN resultA.tree =
                Tree(Node(Len(candidates), parse_expression(exprParserA, Front(candidates))))
        ELSE resultA.tree = NoTree
    /\ (resultA.done /\ calls = SufixCalls) =>
        /\ token_types(candidates) = <<"A", "Mul", "A", "Mul">> =>
                resultA.tree = NoTree
        /\ token_types(candidates) = <<"C", "Mul", "Mul">> =>
                resultA.tree = Tree(Node(3, <<Node(2, <<Leaf(1)>>)>>))

C19_Witness ==
    /\ resultA.done
    /\ calls = SufixCalls
    /\ token_types(candidates) = <<"C", "Mul", "Mul">>
    /\ resultA.tree # NoTree

\* C20: two parsers built by the same sequence of add_operator and
\* set_high_priority_group calls return equal results on the same slice, also
\* when one kind has been registered under two fixities.
C20_SameCallsSameResult ==
    (resultA.done /\ resultB.done) => resultA.tree = resultB.tree

-----------------------------------------------------------------------------
(* More claims about the pattern engine *)

\* number of back-to-back occurrences of AB (a run of 1 then one 2) that s
\* starts with
RECURSIVE OccurrencesOfAB(_)
OccurrencesOfAB(s) ==
    LET run == LeadingRun(s, 1)
    IN  IF run >= 1 /\ run < Len(s) /\ s[run + 1] = 2
        THEN 1 + OccurrencesOfAB(SubSeq(s, run + 2, Len(s)))
        ELSE 0

IsBoundedGroupOfAB(e) ==
    e.t = "Group" /\ e.es = AB /\ e.qt.q \in {"Exactly", "ZeroOrOne"}

\* C21: a Group repeats while a fresh attempt at its first element accepts a
\* non-empty run, whatever its quantifier: Group(E, Exactly(n)) and
\* Group(E, ZeroOrOne) count every back-to-back occurrence of E and so reject
\* an input that starts with more of them than the quantifier allows
\* (Group([a+, b{1}], Exactly(1)) accepts a,b and rejects a,b,a,b).
C21_GroupRepeatsPastItsQuantifier ==
    (BothCalled /\ pattern # <<>> /\ IsBoundedGroupOfAB(pattern[1])) =>
        /\ match_element(Some(candidate), pattern[1]).valid
              <=> QuantifierAccepts(OccurrencesOfAB(candidate), pattern[1].qt)
        /\ (pattern = <<Group(AB, Exactly(1))>> /\ candidate = <<1, 2>>) => matchRes.val
        /\ (pattern = <<Group(AB, Exactly(1))>> /\ candidate = <<1, 2, 1, 2>>) =>
              ~matchRes.val

C21_Witness ==
    /\ BothCalled /\ ~matchRes.val /\ ~matchRes.panic
    /\ pattern = <<Group(AB, Exactly(1))>>
    /\ candidate = <<1, 2, 1, 2>>
    /\ splitRes.matched = <<>>

\* TRUE iff no element of the list accepts the one-symbol sequence <<c>>
NoneAccepts(elements, c) ==
    \A i \in 1..Len(elements) : ~match_element(Some(<<c>>), elements[i]).valid

\* number of leading symbols of s that no element of the list accepts
RECURSIVE RejectedRun(_, _)
RejectedRun(elements, s) ==
    IF s # <<>> /\ NoneAccepts(elements, Head(s))
    THEN 1 + RejectedRun(elements, Tail(s)) ELSE 0

\* C22: NoneOf(elements, q) counts, from the current position, the
\* consecutive symbols that no listed element accepts on their own, and
\* accepts iff that count satisfies q; for the empty list every symbol is
\* counted.
C22_NoneOfCountsRejectedSymbols ==
    (BothCalled /\ pattern # <<>> /\ pattern[1].t = "NoneOf"
        /\ pattern[1].qt.q \in {"OneOrMany", "ZeroOrMany"}) =>
        LET r == match_element(Some(candidate), pattern[1])
            count == RejectedRun(pattern[1].es, candidate)
        IN  /\ r.passed = count
            /\ r.valid <=> QuantifierAccepts(count, pattern[1].qt)
            /\ pattern[1].es = <<>> => r.passed = Len(candidate)

\* C23: match and split_first return normally for every pattern and every
\* sequence, with a consumed offset within the sequence, including for a
\* pattern that contains a Group whose element list is empty.
C23_EngineNeverPanics ==
    /\ matchRes.done => ~matchRes.panic
    /\ splitRes.done =>
          /\ ~splitRes.panic
          /\ splitRes.matched \o splitRes.others = candidate

-----------------------------------------------------------------------------
(* More claims about Parser::parse *)

\* the iteration that begins, or that is running, has a closing delimiter as
\* its current token
AtStrayClose(toks) == toks # <<>> /\ toks[1].kind = parser.block_end

StrayCloseError(toks) ==
    UnexpectedToken(<<>>, <<parser.block_end>>, toks[1].location)

\* C24: when the current token of an iteration is a closing delimiter, an
\* UnexpectedToken{expected: none, got: block-close} error is recorded at its
\* location and the token is not consumed by that step; if no rule matches it
\* either, UnparsedSequence at the same location follows and parse returns the
\* accumulated errors with every later token left unparsed.
C24_StrayCloseIsReportedNotConsumed ==
    /\ [][(parsePc = "while" /\ AtStrayClose(ptokens)) =>
            (/\ perrors' = Append(perrors, StrayCloseError(ptokens))
             /\ ptokens' = ptokens
             /\ abstract_syntax_forest' = abstract_syntax_forest
             /\ parsePc' = "rules")]_vars
    /\ [][(parsePc = "rules" /\ pNodeIdx > Len(parser.nodes)
                /\ AtStrayClose(iterTokens) /\ ~knwon_sequence) =>
            (/\ ptokens = iterTokens
             /\ perrors[Len(perrors)] = StrayCloseError(ptokens)
             /\ perrors' = Append(perrors, UnparsedSequence(ptokens[1].location))
             /\ ptokens' = ptokens
             /\ abstract_syntax_forest' = abstract_syntax_forest
             /\ parsePc' = "fatal"
             /\ parseResult' = ParsingErr(perrors'))]_vars

C24_Witness ==
    /\ parsePc = "fatal"
    /\ parser.nodes = <<RuleA>>
    /\ token_types(input) = <<KindA, BlockE, KindA>>
    /\ ptokens = Tail(input)
    /\ abstract_syntax_forest = <<AST(KindA, <<>>)>>
    /\ parseResult = ParsingErr(<<StrayCloseError(ptokens),
                                  UnparsedSequence(ptokens[1].location)>>)

-----------------------------------------------------------------------------
(* More claims about ExpressionParser::parse *)

\* the index (from 0) at which parse splits the slice handed to it
SplitIndex == find_min_priority(exprParserA, candidates)[1]

LeftTree == parse_expression(exprParserA, SubSeq(candidates, 1, SplitIndex))

RightTree ==
    parse_expression(exprParserA, SubSeq(candidates, SplitIndex + 2, Len(candidates)))

\* C25: when the split operator has Infix fixity, parse returns no result iff
\* both the left and the right sub-slice yield no result; otherwise it returns
\* an Operator node whose children are the trees of the sides that parsed,
\* left before right, so one or two children.
C25_InfixArm ==
    (resultA.done /\ SplitsAt(exprParserA, candidates, "Infix")) =>
        /\ resultA.tree = NoTree <=> (LeftTree = NoTree /\ RightTree = NoTree)
        /\ resultA.tree # NoTree =>
            /\ resultA.tree = Tree(Node(SplitIndex + 1, LeftTree \o RightTree))
            /\ Len(resultA.tree[1].children) \in {1, 2}

C25_Witness ==
    /\ resultA.done
    /\ calls = DocCalls
    /\ token_types(candidates) = <<"A", "Plus">>
    /\ SplitsAt(exprParserA, candidates, "Infix")
    /\ resultA.tree = Tree(Node(2, <<Leaf(1)>>))

\* C26: for every operator table (any natural-number priorities, 0 and
\* values 100 or more apart included) and every balanced slice, if a
\* registered operator stands at grouping depth 0 then the split point chosen
\* by find_min_priority is an operator at depth 0.
C26_SplitPointIsAtDepthZero ==
    (/\ resultA.done
     /\ Balanced(exprParserA, candidates)
     /\ DepthZeroOperators(exprParserA, candidates) # {})
    => /\ find_min_priority(exprParserA, candidates) # <<>>
       /\ (SplitIndex + 1) \in DepthZeroOperators(exprParserA, candidates)

\* the tokens a tree carries, node before children, children left to right
RECURSIVE TreeTokens(_)
RECURSIVE ForestTokens(_)
TreeTokens(ast) == ast.kind.tokens \o ForestTokens(ast.children)
ForestTokens(forest) ==
    IF forest = <<>> THEN <<>>
    ELSE TreeTokens(Head(forest)) \o ForestTokens(Tail(forest))

Occurrences(token, toks) == Cardinality({j \in 1..Len(toks) : toks[j] = token})

\* C28: whenever parse returns a tree for a slice, every token of the slice
\* that is not a grouping delimiter occurs exactly once in the tree (as the
\* token of an Operator or Operand node or inside an Unknown leaf).
C28_EveryTokenOnceInTheTree ==
    (resultA.done /\ resultA.tree # NoTree) =>
        \A i \in 1..Len(candidates) :
            IsDelimiter(exprParserA, candidates[i])
                \/ Occurrences(candidates[i], TreeTokens(resultA.tree[1])) = 1

\* the block that the iteration about to begin slices off the stream
BlockAhead == slice_block(parser, ptokens)

\* a natural number that every step of the call makes smaller: the tokens
\* left when the iteration began, then the rules still to try in it
IterationWeight == Len(parser.nodes) + 3

Rank ==
    CASE parsePc = "while" -> (Len(ptokens) + 1) * IterationWeight
      [] parsePc = "rules" ->
            Len(iterTokens) * IterationWeight + (Len(parser.nodes) + 2 - pNodeIdx)
      [] OTHER -> 0

\* C29: parse terminates for every finite token stream and every rule table
\* whose producers return: every step of the call lowers a natural-number
\* rank, an iteration of the main loop that is followed by another one has
\* consumed at least one token (otherwise parse returns), and the recursive
\* call for a block runs on a strictly shorter stream.
C29_ParseTerminates ==
    /\ [][Rank' < Rank /\ Rank' >= 0]_vars
    /\ [][(parsePc = "rules" /\ parsePc' = "while") =>
            Len(ptokens') < Len(iterTokens)]_vars
    /\ []((parsePc = "while" /\ ptokens # <<>>
                /\ ptokens[1].kind = parser.block_start /\ BlockAhead.ok) =>
            (/\ Len(BlockAhead.tok) >= 2
             /\ Len(BlockAhead.tok) <= Len(ptokens)
             /\ Len(SubSeq(BlockAhead.tok, 2, Len(BlockAhead.tok) - 1)) < Len(ptokens)))

C29_Witness ==
    /\ parsePc = "done"
    /\ token_types(input) = NestedBlocks
    /\ parser.nodes = <<RuleA, RuleB>>
    /\ parseResult.kind = "Ok"
    /\ Len(parseResult.forest) = 3

-----------------------------------------------------------------------------
(* More claims about Lexer::tokenize_content *)

\* the tokens emitted for line l and the characters skipped on it, each in
\* the order produced
LineTokens(l) ==
    LET OnLine(t) == t.location.line = l IN SelectSeq(tokens, OnLine)

LineSkips(l) ==
    LET OnLine(k) == k.line = l IN SelectSeq(skipped, OnLine)

\* the characters consumed on a line: a skipped character stands at the
\* offset it was skipped at, the literals fill the space between
RECURSIVE Consumed(_, _, _)
Consumed(toks, skips, offset) ==
    IF skips # <<>> /\ Head(skips).offset = offset
    THEN <<Head(skips).char>> \o Consumed(toks, Tail(skips), offset + 1)
    ELSE IF toks # <<>>
    THEN Head(toks).literal
            \o Consumed(Tail(toks), skips, offset + Len(Head(toks).literal))
    ELSE <<>>

ConsumedOfLine(l) == Consumed(LineTokens(l), LineSkips(l), 0)

\* C30: every character of every line is consumed exactly once and in order:
\* each pass of the inner loop removes at least one character, the token
\* literals and skipped characters of a line, in the order produced, followed
\* by what is left of it, make up the line, and no token spans two lines.
C30_LinesAreConsumedInOrder ==
    /\ [](\A l \in 0..(lineNo - 1) : ConsumedOfLine(l) = lines(content)[l + 1])
    /\ [](lexPc \in {"while", "nodes"} =>
            ConsumedOfLine(lineNo) \o stream = line_content)
    /\ [](\A i \in 1..Len(tokens) :
            /\ tokens[i].literal # <<>>
            /\ tokens[i].location.line < Len(lines(content))
            /\ \A j \in 1..Len(tokens[i].literal) : tokens[i].literal[j] # 10)
    /\ [][(lexPc = "nodes" /\ matched' /\ ~matched) =>
            Len(stream') < Len(stream)]_vars
    /\ [][(lexPc = "nodes" /\ lexPc' = "while") =>
            (matched \/ Len(stream') = Len(stream) - 1)]_vars
    /\ [][Len(stream') <= Len(stream) \/ lexPc = "lines"]_vars

C30_Witness ==
    /\ lexPc = "done"
    /\ content = <<97, 32, 10, 233>>
    /\ nodes # <<>> /\ nodes[1].regex = <<Set(97, 233, OneOrMany)>>
    /\ Len(tokens) = 2
    /\ Len(skipped) = 1
    /\ ConsumedOfLine(0) = <<97, 32>>
    /\ ConsumedOfLine(1) = <<233>>

-----------------------------------------------------------------------------
(* Claims about the arithmetic of find_min_priority *)

\* 100^d as a usize
RECURSIVE Pow100(_)
Pow100(d) == IF d = 0 THEN <<1>> ELSE <<0>> \o Pow100(d - 1)

\* grouping depth after the tokens scanned so far, and the deepest of the slice
ScanDepth == GroupDepth(scanParser, scanSlice, scanIdx)

NestingDepth ==
    CHOOSE d \in 0..Len(scanSlice) :
        /\ \E n \in 0..Len(scanSlice) : GroupDepth(scanParser, scanSlice, n) = d
        /\ \A n \in 0..Len(scanSlice) : GroupDepth(scanParser, scanSlice, n) <= d

PrioritiesAtMost(k) ==
    \A o \in scanParser.operators : scanParser.priority[o] <= k

====
